---- MODULE Spec2Model ----
(***************************************************************************)
(* Galdoba/appcontext: the JSON record store (jsonstore v2.0.0), the       *)
(* atomic writers and the typed configuration manager, as state machines.  *)
(***************************************************************************)
EXTENDS Integers, Sequences, FiniteSets, TLC

(***************************************************************************)
(* Bounds.                                                                 *)
(***************************************************************************)
\* Record values are the integers -1..MaxVal; see Unsupported.
MaxVal == 1
\* The documents an atomic writer is given are numbered 1..MaxDoc.
MaxDoc == 2
\* Configuration values are 0..MaxCfg; see Invalid.
MaxCfg == 1
\* A Load call names at most MaxAlts alternative paths.
MaxAlts == 1
\* Retention and cleanup ages run over 0 .. MaxDays.
MaxDays == 2
\* Size and child-count limits run over 0 .. MaxCount.
MaxCount == 1
\* A constructor is given at most MaxEntries path entries.
MaxEntries == 2

VARIABLES
    \* ---- record store (jsonstore.JsonDB) and the file at its path
    data,        \* db.data: map id -> value
    autoSave,    \* db.autoSave
    method,      \* db.marshalingMethod
    prefix,      \* db.prefix
    indent,      \* db.indent
    file,        \* the file at db.path: Absent or FileOf(token sequence)
    tmpFiles,    \* number of temporary files left in the directory of db.path
    last,        \* the last call on the store: its arguments, result and pre-state
    ref,         \* reference map: the successful calls applied to the initial map
    startedEmpty, \* the store was constructed with an empty map
    \* ---- one atomic write in progress (writeToFile, atomicSave, file.Save)
    wKind,       \* which writer runs
    wPc,         \* its position
    wTarget,     \* the file at the target path
    wTmp,        \* the temporary file next to the target
    wProbe,      \* file.Save: the write_test.* file of checkPermissions exists
    wOld,        \* the target when the call began
    wNew,        \* the bytes the call was given
    wErr,        \* "running", "ok" or "error"
    wFailedAt,   \* the step that failed
    wCreated,    \* the call created the temporary file
    \* ---- configuration manager (configmanager.Manager) and its file system
    mVer,        \* which Manager: "A" config.go:1-309, "B" config.go:311-603, "C" part_000
    mFormat,     \* m.format
    mConfig,     \* *m.config
    mPath,       \* m.path
    fsFiles,     \* path -> what is there
    fsTmps,      \* the paths p whose p + ".tmp" exists
    mLast,       \* the last call on the manager
    \* ---- the record store with a writer and a reader running concurrently
    dbMu,        \* db.mu: [w, r], held for writing, number of read holders
    txn,         \* the writer's call and how far it has got
    rd,          \* the reader's call, how far it has got, what it returned
    crashed,     \* the runtime stopped the program (fatal error)
    \* ---- the configuration manager with a loader and a reader running concurrently
    mMu,         \* m.mu: [w, r]
    ld,          \* the Load call and how far it has got
    rdr,         \* the Config()/Path() call, how far it has got, what it returned
    \* ---- a record store saved, loaded back and marshaled (jsonstore 1.0.0 and 2.0.0)
    rVer,        \* LibVersion: "1.0.0" part_006, "2.0.0" part_007
    rMethod,     \* db.marshalingMethod
    rPrefix,     \* db.prefix
    rIndent,     \* db.indent
    rData,       \* db.data
    rFile,       \* the file at db.path
    rTmp,        \* db.path + ".tmp" exists
    rSaved,      \* [ok, map]: the map the last successful Save wrote
    rLast,       \* the last call and what it returned
    \* ---- one path entry given to validate (pathspec)
    pe,          \* the Path
    peErr,       \* "unchecked", "nil", or the error validate returned
    \* ---- a Layout, the calls on it and the directory tree (pathspec)
    lIn,         \* what the constructor is given: [op, appname, paths, file]
    layout,      \* [ok, l]: the *Layout the constructor returned, if any
    lLast,       \* the last call and what it returned
    disk,        \* path -> what is there: nothing, a file or a directory
    umask,       \* the file mode creation mask of the process
    \* ---- one path resolution (xdg.Location, pathspec.BuildPath)
    xIn,         \* what is resolved: [op, cfg, path]
    xOut,        \* [done, segs, slash]: the string that came back
    \* ---- the predefined templates and one NewCustomPath on them
    tIn,         \* [template, name, appName]: the call
    templates    \* the package-level template variables: name -> Path

dbVars == <<data, autoSave, method, prefix, indent, file, tmpFiles, last, ref, startedEmpty>>
awVars == <<wKind, wPc, wTarget, wTmp, wProbe, wOld, wNew, wErr, wFailedAt, wCreated>>
cmVars == <<mVer, mFormat, mConfig, mPath, fsFiles, fsTmps, mLast>>
dcVars == <<dbMu, txn, rd, crashed>>
ccVars == <<mMu, ld, rdr>>
rtVars == <<rVer, rMethod, rPrefix, rIndent, rData, rFile, rTmp, rSaved, rLast>>
pvVars == <<pe, peErr>>
lyVars == <<lIn, layout, lLast, disk, umask>>
xlVars == <<xIn, xOut>>
tpVars == <<tIn, templates>>
nonDbVars == <<awVars, cmVars, dcVars, ccVars, rtVars, pvVars, lyVars, xlVars, tpVars>>
nonAwVars == <<dbVars, cmVars, dcVars, ccVars, rtVars, pvVars, lyVars, xlVars, tpVars>>
nonCmVars == <<dbVars, awVars, dcVars, ccVars, rtVars, pvVars, lyVars, xlVars, tpVars>>
nonDcVars == <<awVars, cmVars, ccVars, rtVars, pvVars, lyVars, xlVars, tpVars, last, ref, startedEmpty>>
nonCcVars == <<dbVars, awVars, dcVars, rtVars, pvVars, lyVars, xlVars, tpVars, mLast>>
nonRtVars == <<dbVars, awVars, cmVars, dcVars, ccVars, pvVars, lyVars, xlVars, tpVars>>
nonPvVars == <<dbVars, awVars, cmVars, dcVars, ccVars, rtVars, lyVars, xlVars, tpVars>>
nonLyVars == <<dbVars, awVars, cmVars, dcVars, ccVars, rtVars, pvVars, xlVars, tpVars>>
nonXlVars == <<dbVars, awVars, cmVars, dcVars, ccVars, rtVars, pvVars, lyVars, tpVars>>
nonTpVars == <<dbVars, awVars, cmVars, dcVars, ccVars, rtVars, lyVars, xlVars>>
vars == <<dbVars, awVars, cmVars, dcVars, ccVars, rtVars, pvVars, lyVars, xlVars, tpVars>>

(***************************************************************************)
(* Values, identifiers, maps.                                              *)
(***************************************************************************)
Ids == {"", "a", "b"}
\* The identifiers in the order sort.Strings gives them.
IdOrder == <<"", "a", "b">>
Values == -1 .. MaxVal
\* A value encoding/json cannot encode (a NaN, a channel): json.Marshal fails on it.
Unsupported(v) == v < 0
EmptyMap == [k \in {} |-> 0]
MapsOver(keys, vals) == UNION {[S -> vals] : S \in SUBSET keys}

\* MarshalingMethod.
Compact == 0
Indent == 1
Hybrid == 2

\* A path of the file system: no file, or a regular file and its bytes.
Absent == [exists |-> FALSE, bytes |-> <<>>]
FileOf(bytes) == [exists |-> TRUE, bytes |-> bytes]

(***************************************************************************)
(* JSON text as a sequence of tokens.                                      *)
(***************************************************************************)
Punct(s) == [t |-> "p", s |-> s, n |-> 0]
Space(s) == [t |-> "w", s |-> s, n |-> 0]
\* The strings made of JSON white space only.
WhiteStrings == {"", " ", "  ", "\t", "\n"}
\* A caller-supplied prefix or indent, written as it is: white space only if
\* its characters are.
Text(s) == [t |-> IF s \in WhiteStrings THEN "w" ELSE "x", s |-> s, n |-> 0]
KeyTok(id) == [t |-> "k", s |-> id, n |-> 0]
NumTok(v) == [t |-> "n", s |-> "", n |-> v]

\* The keys of m in sorted order.
SortedKeys(m) == SelectSeq(IdOrder, LAMBDA k : k \in DOMAIN m)

RECURSIVE CompactMembers(_, _, _)
CompactMembers(m, keys, i) ==
    IF i > Len(keys) THEN <<>>
    ELSE <<KeyTok(keys[i]), Punct(":"), NumTok(m[keys[i]])>>
         \o (IF i < Len(keys) THEN <<Punct(",")>> ELSE <<>>)
         \o CompactMembers(m, keys, i + 1)

RECURSIVE IndentMembers(_, _, _, _, _)
IndentMembers(m, keys, i, pre, ind) ==
    IF i > Len(keys) THEN <<>>
    ELSE <<Space("\n"), Text(pre), Text(ind), KeyTok(keys[i]), Punct(":"), Space(" "),
           NumTok(m[keys[i]])>>
         \o (IF i < Len(keys) THEN <<Punct(",")>> ELSE <<>>)
         \o IndentMembers(m, keys, i + 1, pre, ind)

RECURSIVE HybridMembers(_, _, _)
HybridMembers(m, keys, i) ==
    IF i > Len(keys) THEN <<>>
    ELSE <<Space("  "), KeyTok(keys[i]), Punct(":"), Space(" "), NumTok(m[keys[i]])>>
         \o (IF i < Len(keys) THEN <<Punct(",")>> ELSE <<>>)
         \o <<Space("\n")>>
         \o HybridMembers(m, keys, i + 1)

\* JsonDB.Marshal: [err, bytes].
Marshal(m, mm, pre, ind) ==
    IF \E k \in DOMAIN m : Unsupported(m[k])
    THEN [err |-> TRUE, bytes |-> <<>>]
    ELSE CASE mm = Compact ->
                [err |-> FALSE,
                 bytes |-> <<Punct("{")>> \o CompactMembers(m, SortedKeys(m), 1) \o <<Punct("}")>>]
           [] mm = Indent ->
                [err |-> FALSE,
                 bytes |-> IF DOMAIN m = {} THEN <<Punct("{"), Punct("}")>>
                           ELSE <<Punct("{")>> \o IndentMembers(m, SortedKeys(m), 1, pre, ind)
                                \o <<Space("\n"), Text(pre), Punct("}")>>]
           [] mm = Hybrid ->
                [err |-> FALSE,
                 bytes |-> <<Punct("{"), Space("\n")>> \o HybridMembers(m, SortedKeys(m), 1)
                           \o <<Punct("}")>>]
           [] OTHER -> [err |-> TRUE, bytes |-> <<>>]

\* json.Unmarshal(file, &db.data): white space is skipped, the members of the
\* object are stored into the map in order.
RECURSIVE ParseMembers(_, _, _)
ParseMembers(toks, i, acc) ==
    IF i + 3 > Len(toks) THEN [err |-> TRUE, map |-> acc]
    ELSE IF toks[i].t = "k" /\ toks[i + 1] = Punct(":") /\ toks[i + 2].t = "n"
         THEN LET k == toks[i].s
                  acc2 == [x \in DOMAIN acc \cup {k} |-> IF x = k THEN toks[i + 2].n ELSE acc[x]]
              IN  IF toks[i + 3] = Punct("}")
                  THEN [err |-> i + 3 # Len(toks), map |-> acc2]
                  ELSE IF toks[i + 3] = Punct(",")
                       THEN ParseMembers(toks, i + 4, acc2)
                       ELSE [err |-> TRUE, map |-> acc2]
         ELSE [err |-> TRUE, map |-> acc]

Unmarshal(bytes, into) ==
    LET toks == SelectSeq(bytes, LAMBDA x : x.t # "w")
    IN  IF Len(toks) < 2 \/ toks[1] # Punct("{") THEN [err |-> TRUE, map |-> into]
        ELSE IF Len(toks) = 2 THEN [err |-> toks[2] # Punct("}"), map |-> into]
        ELSE ParseMembers(toks, 2, into)

\* The map stored in a file, an absent file counting as the empty map.
StoredMap(f) == IF ~f.exists THEN EmptyMap ELSE Unmarshal(f.bytes, EmptyMap).map

(***************************************************************************)
(* Construction: New and its options.                                      *)
(***************************************************************************)
WithAutoSave(o, b) == [o EXCEPT !.autoSave = b]
WithCompactMarshaling(o) == [o EXCEPT !.marshalingMethod = Compact]
WithIndentMarshaling(o, pre, ind) ==
    [o EXCEPT !.marshalingMethod = Indent, !.prefix = pre, !.indent = ind]

\* An option of a call, as data: k names the option function.
OptAutoSave(b) == [k |-> "WithAutoSave", b |-> b, pre |-> "", ind |-> ""]
OptCompact == [k |-> "WithCompactMarshaling", b |-> FALSE, pre |-> "", ind |-> ""]
OptIndent(pre, ind) == [k |-> "WithIndentMarshaling", b |-> FALSE, pre |-> pre, ind |-> ind]

\* options{}: the zero value of the options struct.
ZeroOptions == [autoSave |-> FALSE, marshalingMethod |-> 0, prefix |-> "", indent |-> ""]

\* for _, modify := range opts { modify(&optionSet) }
RECURSIVE ApplyOptions(_, _)
ApplyOptions(o, opts) ==
    IF opts = <<>> THEN o
    ELSE LET x == Head(opts)
             o2 == CASE x.k = "WithAutoSave" -> WithAutoSave(o, x.b)
                     [] x.k = "WithCompactMarshaling" -> WithCompactMarshaling(o)
                     [] OTHER -> WithIndentMarshaling(o, x.pre, x.ind)
         IN  ApplyOptions(o2, Tail(opts))

\* New(path, opts...) on a path whose file holds f0: [err, data, autoSave, ...].
New(f0, opts) ==
    LET db0 == [data |-> EmptyMap, marshalingMethod |-> Hybrid, indent |-> "  ", prefix |-> "",
                autoSave |-> FALSE]
        optionSet == ApplyOptions(ZeroOptions, opts)
        db == [db0 EXCEPT !.autoSave = optionSet.autoSave,
                          !.marshalingMethod = optionSet.marshalingMethod,
                          !.indent = optionSet.indent,
                          !.prefix = optionSet.prefix]
    IN  IF ~f0.exists THEN [err |-> FALSE, db |-> db]
        ELSE LET u == Unmarshal(f0.bytes, db.data)
             IN  [err |-> u.err, db |-> [db EXCEPT !.data = u.map]]

(***************************************************************************)
(* Persistence: writeToFile and internalSave, run to completion.           *)
(***************************************************************************)
\* Where a write to the file system may fail.
FailPoints == {"none", "mkdir", "createtemp", "write", "sync", "close", "rename"}

\* The failures a call can meet: none when it does not persist.
SaveFailures(persists) == IF persists THEN FailPoints ELSE {"none"}

\* A writer that writes the target in place: a failure after the write leaves
\* the new bytes at the target.
writeToFile_InPlace(bytes, f, tmps, fail) ==
    IF fail \in {"mkdir", "createtemp"} THEN [file |-> f, tmps |-> tmps, err |-> TRUE]
    ELSE [file |-> FileOf(bytes), tmps |-> tmps, err |-> fail # "none"]

\* writeToFile(data, path) with the file system failing at `fail`:
\* [file, tmps, err], the target's content, the temporary files left, the error.
writeToFile(bytes, f, tmps, fail) ==
    IF fail = "mkdir" THEN [file |-> f, tmps |-> tmps, err |-> TRUE]
    ELSE IF fail = "createtemp" THEN [file |-> f, tmps |-> tmps, err |-> TRUE]
    ELSE LET created == tmps + 1           \* os.CreateTemp
             removed == created - 1        \* defer os.Remove(tmpName)
         IN  IF fail \in {"write", "sync", "close", "rename"}
             THEN [file |-> f, tmps |-> removed, err |-> TRUE]
             ELSE [file |-> FileOf(bytes), tmps |-> created - 1, err |-> FALSE]   \* os.Rename

\* db.internalSave()
internalSave(m, mm, pre, ind, f, tmps, fail) ==
    LET d == Marshal(m, mm, pre, ind)
    IN  IF d.err THEN [file |-> f, tmps |-> tmps, err |-> TRUE]
        ELSE writeToFile(d.bytes, f, tmps, fail)

(***************************************************************************)
(* Record store operations, each under db.mu for its whole length.         *)
(***************************************************************************)
\* A delete that removes nothing.
Remove_Nothing(m, id) == m

Put(m, id, v) == [k \in DOMAIN m \cup {id} |-> IF k = id THEN v ELSE m[k]]
Remove(m, id) == [k \in DOMAIN m \ {id} |-> m[k]]

\* The result of a mutating call: the map, the file, the error.
Result(m, f, tmps, err, persist) ==
    [data |-> m, file |-> f, tmps |-> tmps, err |-> err, persist |-> persist]

\* A commit that keeps the mutated map when the save fails.
Commit_NoRollback(oldData, newData, as, mm, pre, ind, f, tmps, fail) ==
    IF as
    THEN LET r == internalSave(newData, mm, pre, ind, f, tmps, fail)
         IN  Result(newData, r.file, r.tmps, IF r.err THEN "savefail" ELSE "none",
                    IF r.err THEN "failed" ELSE "ok")
    ELSE Result(newData, f, tmps, "none", "skipped")

\* The shared tail of Insert, Update and Delete: oldData is the clone, newData the
\* mutated map; with auto-save the map is persisted and restored on failure.
Commit(oldData, newData, as, mm, pre, ind, f, tmps, fail) ==
    IF as
    THEN LET r == internalSave(newData, mm, pre, ind, f, tmps, fail)
         IN  IF r.err THEN Result(oldData, r.file, r.tmps, "savefail", "failed")
             ELSE Result(newData, r.file, r.tmps, "none", "ok")
    ELSE Result(newData, f, tmps, "none", "skipped")

\* An insert that overwrites a present id.
InsertResult_Upsert(m, id, v, as, mm, pre, ind, f, tmps, fail) ==
    IF id = "" THEN Result(m, f, tmps, "empty", "skipped")
    ELSE Result(Put(m, id, v), f, tmps, "none", "skipped")

InsertResult(m, id, v, as, mm, pre, ind, f, tmps, fail) ==
    IF id = "" THEN Result(m, f, tmps, "empty", "skipped")
    ELSE IF id \in DOMAIN m THEN Result(m, f, tmps, "exists", "skipped")
    ELSE Commit(m, Put(m, id, v), as, mm, pre, ind, f, tmps, fail)

UpdateResult(m, id, v, as, mm, pre, ind, f, tmps, fail) ==
    IF id = "" THEN Result(m, f, tmps, "empty", "skipped")
    ELSE IF id \notin DOMAIN m THEN Result(m, f, tmps, "notfound", "skipped")
    ELSE Commit(m, Put(m, id, v), as, mm, pre, ind, f, tmps, fail)

DeleteResult(m, id, as, mm, pre, ind, f, tmps, fail) ==
    IF id \notin DOMAIN m THEN Result(m, f, tmps, "notfound", "skipped")
    ELSE Commit(m, Remove(m, id), as, mm, pre, ind, f, tmps, fail)

\* Read-only operations.
Get(m, id) == IF id \in DOMAIN m THEN [val |-> m[id], err |-> "none"]
              ELSE [val |-> 0, err |-> "notfound"]
Contains(m, id) == id \in DOMAIN m
Count(m) == Cardinality(DOMAIN m)
GetAll(m) == [k \in DOMAIN m |-> m[k]]

\* The reference map after a call that returned err.
ApplyRef(r, op, id, v, err) ==
    IF err # "none" THEN r
    ELSE IF op = "Delete" THEN [k \in DOMAIN r \ {id} |-> r[k]]
    ELSE IF op \in {"Insert", "Update"} THEN [k \in DOMAIN r \cup {id} |-> IF k = id THEN v ELSE r[k]]
    ELSE r

(***************************************************************************)
(* The record store as a state machine: one action per public operation.   *)
(***************************************************************************)
\* The option lists New is called with.
OptionLists ==
    {<<>>, <<OptAutoSave(TRUE)>>, <<OptAutoSave(FALSE)>>, <<OptCompact>>,
     <<OptIndent("", "  ")>>, <<OptAutoSave(TRUE), OptCompact>>,
     <<OptAutoSave(TRUE), OptIndent("", "  ")>>}

\* What the file at the path may hold before New: nothing, or a document some
\* store saved there.
InitFiles ==
    {Absent} \cup {FileOf(Marshal(m, Compact, "", "").bytes) : m \in MapsOver(Ids \ {""}, 0 .. MaxVal)}

NoCall == [op |-> "New", id |-> "", val |-> 0, fail |-> "none", err |-> "none", persist |-> "skipped",
           pre |-> EmptyMap, preFile |-> Absent, preTmps |-> 0]

InitDB ==
    \E f0 \in InitFiles, opts \in OptionLists :
        LET n == New(f0, opts)
        IN  /\ ~n.err
            /\ data = n.db.data
            /\ autoSave = n.db.autoSave
            /\ method = n.db.marshalingMethod
            /\ prefix = n.db.prefix
            /\ indent = n.db.indent
            /\ file = f0
            /\ tmpFiles = 0
            /\ last = [NoCall EXCEPT !.pre = n.db.data, !.preFile = f0]
            /\ ref = n.db.data
            /\ startedEmpty = (n.db.data = EmptyMap)

\* Installs the result r of the call op(id, v) made while the file system fails at fail.
Install(op, id, v, fail, r) ==
    /\ data' = r.data
    /\ file' = r.file
    /\ tmpFiles' = r.tmps
    /\ last' = [op |-> op, id |-> id, val |-> v, fail |-> fail, err |-> r.err, persist |-> r.persist,
                pre |-> data, preFile |-> file, preTmps |-> tmpFiles]
    /\ ref' = ApplyRef(ref, op, id, v, r.err)
    /\ UNCHANGED <<autoSave, method, prefix, indent, startedEmpty>>

Insert ==
    \E id \in Ids, v \in Values, fail \in SaveFailures(autoSave) :
        /\ Install("Insert", id, v, fail,
                   InsertResult(data, id, v, autoSave, method, prefix, indent, file, tmpFiles, fail))
        /\ UNCHANGED nonDbVars

Update ==
    \E id \in Ids, v \in Values, fail \in SaveFailures(autoSave) :
        /\ Install("Update", id, v, fail,
                   UpdateResult(data, id, v, autoSave, method, prefix, indent, file, tmpFiles, fail))
        /\ UNCHANGED nonDbVars

Delete ==
    \E id \in Ids, fail \in SaveFailures(autoSave) :
        /\ Install("Delete", id, 0, fail,
                   DeleteResult(data, id, autoSave, method, prefix, indent, file, tmpFiles, fail))
        /\ UNCHANGED nonDbVars

\* db.Save()
Save ==
    \E fail \in FailPoints :
        LET r == internalSave(data, method, prefix, indent, file, tmpFiles, fail)
        IN  /\ Install("Save", "", 0, fail,
                       Result(data, r.file, r.tmps, IF r.err THEN "savefail" ELSE "none",
                              IF r.err THEN "failed" ELSE "ok"))
            /\ UNCHANGED nonDbVars

NextDB == Insert \/ Update \/ Delete \/ Save


(***************************************************************************)
(* Record store: rollback, durability, rejected calls, reference map.      *)
(***************************************************************************)
Mutations == {"Insert", "Update", "Delete"}

\* The call op(id) passes its precondition on the map pre, so it reaches its
\* mutation and, with auto-save, its persist step.
Admitted(op, pre, id) ==
    CASE op = "Insert" -> id # "" /\ id \notin DOMAIN pre
      [] op = "Update" -> id # "" /\ id \in DOMAIN pre
      [] op = "Delete" -> id \in DOMAIN pre
      [] OTHER -> FALSE

\* The persist step of the last call failed: the file system failed, or the
\* mutated map holds a value that cannot be encoded.
PersistFailed ==
    /\ autoSave
    /\ last.op \in Mutations
    /\ Admitted(last.op, last.pre, last.id)
    /\ \/ last.fail # "none"
       \/ last.op \in {"Insert", "Update"} /\ Unsupported(last.val)

\* C1: with auto-save enabled, when the persist step of Insert, Update or Delete
\* fails, the call returns an error and the map is as before the call: Get(id)
\* returns what it returned before, for every id, and Count() is unchanged.
C1_RollbackOnPersistFailure ==
    PersistFailed =>
        /\ last.err # "none"
        /\ \A id \in Ids : Get(data, id) = Get(last.pre, id)
        /\ Count(data) = Count(last.pre)

C1_Witness ==
    /\ autoSave
    /\ last.op = "Update" /\ last.id = "a" /\ last.fail = "rename"
    /\ "a" \in DOMAIN last.pre /\ "b" \in DOMAIN last.pre
    /\ last.err = "savefail"
    /\ data = last.pre

C9_RejectedCallHasNoEffect ==
    (last.op \in Mutations /\ ~Admitted(last.op, last.pre, last.id)) =>
        /\ last.err = CASE last.op = "Insert" -> (IF last.id = "" THEN "empty" ELSE "exists")
                        [] last.op = "Update" -> (IF last.id = "" THEN "empty" ELSE "notfound")
                        [] OTHER -> "notfound"
        /\ data = last.pre
        /\ \A id \in Ids : Get(data, id) = Get(last.pre, id)
        /\ Count(data) = Count(last.pre)
        /\ file = last.preFile
        /\ tmpFiles = last.preTmps

C9_Witness ==
    /\ last.op = "Insert" /\ last.id = "a" /\ last.err = "exists"
    /\ Get(data, "a") = [val |-> 0, err |-> "none"]
    /\ autoSave

\* C10: a store that started empty agrees with the reference map to which
\* exactly the successful calls were applied, and a successful call on one id
\* changes no other id's value.
C10_AgreesWithReference ==
    startedEmpty =>
        /\ \A id \in Ids :
              /\ Get(data, id) = (IF id \in DOMAIN ref THEN [val |-> ref[id], err |-> "none"]
                                  ELSE [val |-> 0, err |-> "notfound"])
              /\ Contains(data, id) = (Get(data, id).err = "none")
        /\ Count(data) = Cardinality(DOMAIN ref)
        /\ (last.op \in Mutations /\ last.err = "none") =>
              \A k \in Ids \ {last.id} : Get(data, k) = Get(last.pre, k)

C10_Witness ==
    /\ startedEmpty
    /\ last.op = "Update" /\ last.err = "none" /\ last.id = "b"
    /\ Count(data) = 2
    /\ data["b"] # last.pre["b"]

(***************************************************************************)
(* The atomic writers, step by step: writeToFile (jsonstore), atomicSave   *)
(* (configmanager, both versions of config.go) and file.Save.              *)
(***************************************************************************)
Kinds == {"writeToFile", "atomicSave_v1", "atomicSave_v2", "fileSave"}
\* A document is two chunks of bytes; a write that fails leaves a proper prefix.
Docs == {<<d, d>> : d \in 1 .. MaxDoc}

InitAW ==
    /\ wKind \in Kinds
    /\ wPc = "idle"
    /\ wTarget \in {Absent} \cup {FileOf(d) : d \in Docs}
    /\ wTmp = Absent
    /\ wProbe = FALSE
    /\ wOld = wTarget
    /\ wNew = <<>>
    /\ wErr = "ok"
    /\ wFailedAt = "none"
    /\ wCreated = FALSE

\* A write of bytes to a file that stores only the first n chunks.
Written(bytes, n) == FileOf(SubSeq(bytes, 1, n))

\* A write that goes to the target itself.
WriteData_InPlace(target, tmp, bytes, n) == [target |-> Written(bytes, n), tmp |-> tmp]

\* tmpFile.Write(data) / os.WriteFile(tempPath, data): the bytes go to the
\* temporary file, the target is not touched.
WriteData(target, tmp, bytes, n) == [target |-> target, tmp |-> Written(bytes, n)]
\* os.Rename(tmpName, path)
Rename(target, tmp) == [target |-> tmp, tmp |-> Absent]

\* The step fails: the call will return an error.
Failing(at) == wErr' = "error" /\ wFailedAt' = at

\* A call begins.
AW_Begin ==
    \E bytes \in Docs :
        /\ wPc = "idle"
        /\ wNew' = bytes
        /\ wOld' = wTarget
        /\ wErr' = "running"
        /\ wFailedAt' = "none"
        /\ wCreated' = FALSE
        /\ wPc' = CASE wKind = "writeToFile" -> "mkdirall"
                    [] wKind = "fileSave" -> "stat"
                    [] OTHER -> "open"
        /\ UNCHANGED <<wKind, wTarget, wTmp, wProbe>>
        /\ UNCHANGED nonAwVars

\* ---- writeToFile
wtf_MkdirAll ==
    /\ wKind = "writeToFile" /\ wPc = "mkdirall"
    /\ \/ wPc' = "createtemp" /\ UNCHANGED <<wErr, wFailedAt>>
       \/ wPc' = "idle" /\ Failing("mkdirall")
    /\ UNCHANGED <<wKind, wTarget, wTmp, wProbe, wOld, wNew, wCreated>>
    /\ UNCHANGED nonAwVars

wtf_CreateTemp ==
    /\ wKind = "writeToFile" /\ wPc = "createtemp"
    /\ \/ /\ wTmp' = FileOf(<<>>) /\ wCreated' = TRUE
          /\ wPc' = "write" /\ UNCHANGED <<wErr, wFailedAt>>
       \/ wPc' = "idle" /\ Failing("createtemp") /\ UNCHANGED <<wTmp, wCreated>>
    /\ UNCHANGED <<wKind, wTarget, wProbe, wOld, wNew>>
    /\ UNCHANGED nonAwVars

wtf_Write ==
    /\ wKind = "writeToFile" /\ wPc = "write"
    /\ \/ LET w == WriteData(wTarget, wTmp, wNew, Len(wNew))
          IN  /\ wTarget' = w.target /\ wTmp' = w.tmp
              /\ wPc' = "sync" /\ UNCHANGED <<wErr, wFailedAt>>
       \/ \E n \in 0 .. Len(wNew) - 1 :
              LET w == WriteData(wTarget, wTmp, wNew, n)
              IN  /\ wTarget' = w.target /\ wTmp' = w.tmp
                  /\ wPc' = "remove" /\ Failing("write")
    /\ UNCHANGED <<wKind, wProbe, wOld, wNew, wCreated>>
    /\ UNCHANGED nonAwVars

wtf_Sync ==
    /\ wKind = "writeToFile" /\ wPc = "sync"
    /\ \/ wPc' = "close" /\ UNCHANGED <<wErr, wFailedAt>>
       \/ wPc' = "remove" /\ Failing("sync")
    /\ UNCHANGED <<wKind, wTarget, wTmp, wProbe, wOld, wNew, wCreated>>
    /\ UNCHANGED nonAwVars

wtf_Close ==
    /\ wKind = "writeToFile" /\ wPc = "close"
    /\ \/ wPc' = "rename" /\ UNCHANGED <<wErr, wFailedAt>>
       \/ wPc' = "remove" /\ Failing("close")
    /\ UNCHANGED <<wKind, wTarget, wTmp, wProbe, wOld, wNew, wCreated>>
    /\ UNCHANGED nonAwVars

wtf_Rename ==
    /\ wKind = "writeToFile" /\ wPc = "rename"
    /\ \/ LET r == Rename(wTarget, wTmp)
          IN  /\ wTarget' = r.target /\ wTmp' = r.tmp
              /\ wErr' = "ok" /\ UNCHANGED wFailedAt
       \/ Failing("rename") /\ UNCHANGED <<wTarget, wTmp>>
    /\ wPc' = "remove"
    /\ UNCHANGED <<wKind, wProbe, wOld, wNew, wCreated>>
    /\ UNCHANGED nonAwVars

\* defer os.Remove(tmpName), as the call returns
wtf_Remove ==
    /\ wKind = "writeToFile" /\ wPc = "remove"
    /\ wTmp' = Absent
    /\ wPc' = "idle"
    /\ UNCHANGED <<wKind, wTarget, wProbe, wOld, wNew, wErr, wFailedAt, wCreated>>
    /\ UNCHANGED nonAwVars

\* ---- atomicSave (config.go, both versions): tempPath = path + ".tmp"
AtomicSaves == {"atomicSave_v1", "atomicSave_v2"}

\* os.WriteFile: open tempPath with O_WRONLY|O_CREATE|O_TRUNC
as_Open ==
    /\ wKind \in AtomicSaves /\ wPc = "open"
    /\ \/ /\ wCreated' = ~wTmp.exists /\ wTmp' = FileOf(<<>>)
          /\ wPc' = "write" /\ UNCHANGED <<wErr, wFailedAt>>
       \/ wPc' = "idle" /\ Failing("open") /\ UNCHANGED <<wTmp, wCreated>>
    /\ UNCHANGED <<wKind, wTarget, wProbe, wOld, wNew>>
    /\ UNCHANGED nonAwVars

\* os.WriteFile: write and close; an error is returned at once
as_Write ==
    /\ wKind \in AtomicSaves /\ wPc = "write"
    /\ \/ LET w == WriteData(wTarget, wTmp, wNew, Len(wNew))
          IN  /\ wTarget' = w.target /\ wTmp' = w.tmp
              /\ wPc' = "rename" /\ UNCHANGED <<wErr, wFailedAt>>
       \/ \E n \in 0 .. Len(wNew) - 1 :
              LET w == WriteData(wTarget, wTmp, wNew, n)
              IN  /\ wTarget' = w.target /\ wTmp' = w.tmp
                  /\ wPc' = "idle" /\ Failing("write")
    /\ UNCHANGED <<wKind, wProbe, wOld, wNew, wCreated>>
    /\ UNCHANGED nonAwVars

as_Rename ==
    /\ wKind \in AtomicSaves /\ wPc = "rename"
    /\ \/ LET r == Rename(wTarget, wTmp)
          IN  /\ wTarget' = r.target /\ wTmp' = r.tmp
              /\ wPc' = "idle" /\ wErr' = "ok" /\ UNCHANGED wFailedAt
       \/ /\ wKind = "atomicSave_v1"
          /\ wPc' = "idle" /\ Failing("rename") /\ UNCHANGED <<wTarget, wTmp>>
       \/ /\ wKind = "atomicSave_v2"
          /\ wPc' = "remove" /\ Failing("rename") /\ UNCHANGED <<wTarget, wTmp>>
    /\ UNCHANGED <<wKind, wProbe, wOld, wNew, wCreated>>
    /\ UNCHANGED nonAwVars

\* config.go:569: os.Remove(tempPath) after a failed rename
as_Remove ==
    /\ wKind = "atomicSave_v2" /\ wPc = "remove"
    /\ wTmp' = Absent
    /\ wPc' = "idle"
    /\ UNCHANGED <<wKind, wTarget, wProbe, wOld, wNew, wErr, wFailedAt, wCreated>>
    /\ UNCHANGED nonAwVars

\* ---- file.Save
fs_Stat ==
    /\ wKind = "fileSave" /\ wPc = "stat"
    /\ \/ /\ ~wTarget.exists
          /\ wPc' = "idle" /\ Failing("stat")
       \/ /\ wTarget.exists
          /\ wPc' = "checkopen" /\ UNCHANGED <<wErr, wFailedAt>>
    /\ UNCHANGED <<wKind, wTarget, wTmp, wProbe, wOld, wNew, wCreated>>
    /\ UNCHANGED nonAwVars

\* checkPermissions: os.Open(path)
fs_CheckOpen ==
    /\ wKind = "fileSave" /\ wPc = "checkopen"
    /\ \/ wPc' = "probe" /\ UNCHANGED <<wErr, wFailedAt>>
       \/ wPc' = "idle" /\ Failing("checkopen")
    /\ UNCHANGED <<wKind, wTarget, wTmp, wProbe, wOld, wNew, wCreated>>
    /\ UNCHANGED nonAwVars

\* checkPermissions: os.CreateTemp(dir, "write_test.*")
fs_ProbeCreate ==
    /\ wKind = "fileSave" /\ wPc = "probe"
    /\ \/ wProbe' = TRUE /\ wPc' = "proberemove" /\ UNCHANGED <<wErr, wFailedAt>>
       \/ wPc' = "idle" /\ Failing("probe") /\ UNCHANGED wProbe
    /\ UNCHANGED <<wKind, wTarget, wTmp, wOld, wNew, wCreated>>
    /\ UNCHANGED nonAwVars

\* checkPermissions: tmpFile.Close(); os.Remove(tmpName)
fs_ProbeRemove ==
    /\ wKind = "fileSave" /\ wPc = "proberemove"
    /\ wProbe' = FALSE
    /\ wPc' = "stat2"
    /\ UNCHANGED <<wKind, wTarget, wTmp, wOld, wNew, wErr, wFailedAt, wCreated>>
    /\ UNCHANGED nonAwVars

fs_Stat2 ==
    /\ wKind = "fileSave" /\ wPc = "stat2"
    /\ \/ wPc' = "createtemp" /\ UNCHANGED <<wErr, wFailedAt>>
       \/ wPc' = "idle" /\ Failing("stat2")
    /\ UNCHANGED <<wKind, wTarget, wTmp, wProbe, wOld, wNew, wCreated>>
    /\ UNCHANGED nonAwVars

fs_CreateTemp ==
    /\ wKind = "fileSave" /\ wPc = "createtemp"
    /\ \/ /\ wTmp' = FileOf(<<>>) /\ wCreated' = TRUE
          /\ wPc' = "chmod" /\ UNCHANGED <<wErr, wFailedAt>>
       \/ wPc' = "idle" /\ Failing("createtemp") /\ UNCHANGED <<wTmp, wCreated>>
    /\ UNCHANGED <<wKind, wTarget, wProbe, wOld, wNew>>
    /\ UNCHANGED nonAwVars

fs_Chmod ==
    /\ wKind = "fileSave" /\ wPc = "chmod"
    /\ \/ wPc' = "write" /\ UNCHANGED <<wErr, wFailedAt>>
       \/ wPc' = "remove" /\ Failing("chmod")
    /\ UNCHANGED <<wKind, wTarget, wTmp, wProbe, wOld, wNew, wCreated>>
    /\ UNCHANGED nonAwVars

fs_Write ==
    /\ wKind = "fileSave" /\ wPc = "write"
    /\ \/ LET w == WriteData(wTarget, wTmp, wNew, Len(wNew))
          IN  /\ wTarget' = w.target /\ wTmp' = w.tmp
              /\ wPc' = "sync" /\ UNCHANGED <<wErr, wFailedAt>>
       \/ \E n \in 0 .. Len(wNew) - 1 :
              LET w == WriteData(wTarget, wTmp, wNew, n)
              IN  /\ wTarget' = w.target /\ wTmp' = w.tmp
                  /\ wPc' = "remove" /\ Failing("write")
    /\ UNCHANGED <<wKind, wProbe, wOld, wNew, wCreated>>
    /\ UNCHANGED nonAwVars

fs_Sync ==
    /\ wKind = "fileSave" /\ wPc = "sync"
    /\ \/ wPc' = "close" /\ UNCHANGED <<wErr, wFailedAt>>
       \/ wPc' = "remove" /\ Failing("sync")
    /\ UNCHANGED <<wKind, wTarget, wTmp, wProbe, wOld, wNew, wCreated>>
    /\ UNCHANGED nonAwVars

fs_Close ==
    /\ wKind = "fileSave" /\ wPc = "close"
    /\ \/ wPc' = "rename" /\ UNCHANGED <<wErr, wFailedAt>>
       \/ wPc' = "remove" /\ Failing("close")
    /\ UNCHANGED <<wKind, wTarget, wTmp, wProbe, wOld, wNew, wCreated>>
    /\ UNCHANGED nonAwVars

fs_Rename ==
    /\ wKind = "fileSave" /\ wPc = "rename"
    /\ \/ LET r == Rename(wTarget, wTmp)
          IN  /\ wTarget' = r.target /\ wTmp' = r.tmp
              /\ wPc' = "idle" /\ wErr' = "ok" /\ UNCHANGED wFailedAt
       \/ wPc' = "remove" /\ Failing("rename") /\ UNCHANGED <<wTarget, wTmp>>
    /\ UNCHANGED <<wKind, wProbe, wOld, wNew, wCreated>>
    /\ UNCHANGED nonAwVars

\* the deferred cleanup (writeSuccess is false), or the cleanup after Chmod
fs_Remove ==
    /\ wKind = "fileSave" /\ wPc = "remove"
    /\ wTmp' = Absent
    /\ wPc' = "idle"
    /\ UNCHANGED <<wKind, wTarget, wProbe, wOld, wNew, wErr, wFailedAt, wCreated>>
    /\ UNCHANGED nonAwVars

NextAW ==
    \/ AW_Begin
    \/ wtf_MkdirAll \/ wtf_CreateTemp \/ wtf_Write \/ wtf_Sync \/ wtf_Close \/ wtf_Rename
    \/ wtf_Remove
    \/ as_Open \/ as_Write \/ as_Rename \/ as_Remove
    \/ fs_Stat \/ fs_CheckOpen \/ fs_ProbeCreate \/ fs_ProbeRemove \/ fs_Stat2
    \/ fs_CreateTemp \/ fs_Chmod \/ fs_Write \/ fs_Sync \/ fs_Close \/ fs_Rename \/ fs_Remove


\* The call has returned.
Returned == wPc = "idle" /\ wErr \in {"ok", "error"} /\ wNew # <<>>

\* C3: at every step of an atomic write the target holds either the complete
\* content from before the call or the complete new content, and once a step
\* before the rename has failed it holds the content from before the call.
C3_TargetOldOrNew ==
    /\ wTarget = wOld \/ wTarget = FileOf(wNew)
    /\ wFailedAt # "none" => wTarget = wOld
    /\ (wErr = "running" /\ wPc # "idle") => wTarget = wOld

C3_Witness ==
    /\ wKind = "atomicSave_v2" /\ wPc = "idle" /\ wFailedAt = "write"
    /\ wTmp.exists /\ Len(wTmp.bytes) < Len(wNew)
    /\ wTarget.exists /\ wTarget = wOld /\ wTarget # FileOf(wNew)

\* C4: whenever an atomic write returns an error, no temporary file created by
\* that call remains next to the target, and the target is unchanged.
C4_NoTempLeftOnError ==
    (Returned /\ wErr = "error") =>
        /\ ~(wCreated /\ wTmp.exists)
        /\ ~wProbe
        /\ wTarget = wOld

(***************************************************************************)
(* The configuration manager (configmanager.Manager), three versions:      *)
(* "A" config.go:1-309, "B" config.go:311-603, "C" part_000 (TOML only).   *)
(***************************************************************************)
JSON == "json"
YAML == "yaml"
TOML == "toml"
Formats == {JSON, YAML, TOML}
Versions == {"A", "B", "C"}
Cfgs == 0 .. MaxCfg
\* The value's Validate() hook returns an error.
Invalid(v) == v < 1

\* A path is a sequence of name parts and dots.
\* xdg.Location(ForConfig(), WithProgramName(appName), WithFileName("config." + format))
XdgConfigPath(f) == <<"config", ".", f>>
\* The paths that may hold a file: the default one and one whose name ends in
\* the format's name without a dot before it.
PathsOf(f) == {<<"config", ".", f>>, <<"alt", f>>}
\* A path of another format, where no file exists.
OtherPath == <<"config", ".", "ini">>

\* What a path holds: nothing, a directory, or a regular file with a document
\* in some format (or bytes no format decodes).  Where nothing is, the parent
\* directory exists (NoFile) or is missing too (NoDir).
NoFile == [kind |-> "absent", fmt |-> "", val |-> 0]
NoDir == [kind |-> "nodir", fmt |-> "", val |-> 0]
\* os.Stat(path) fails with ErrNotExist.
Missing(x) == x.kind \in {"absent", "nodir"}
DirFile == [kind |-> "dir", fmt |-> "", val |-> 0]
Doc(f, v) == [kind |-> "file", fmt |-> f, val |-> v]
Garbage == [kind |-> "file", fmt |-> "garbage", val |-> 0]
FileStates(f) == {NoFile, NoDir, DirFile, Garbage} \cup {Doc(f, v) : v \in Cfgs}
At(fs, p) == IF p \in DOMAIN fs THEN fs[p] ELSE NoFile

\* strings and path/filepath
LastDot(p) ==
    IF \E i \in 1 .. Len(p) : p[i] = "."
    THEN CHOOSE i \in 1 .. Len(p) : p[i] = "." /\ \A j \in (i + 1) .. Len(p) : p[j] # "."
    ELSE 0
Ext(p) == IF LastDot(p) = 0 THEN <<>> ELSE SubSeq(p, LastDot(p), Len(p))
HasSuffix(str, suf) ==
    Len(str) >= Len(suf) /\ SubSeq(str, Len(str) - Len(suf) + 1, Len(str)) = suf
HasPrefix(str, pre) == Len(str) >= Len(pre) /\ SubSeq(str, 1, Len(pre)) = pre
TrimSuffix(str, suf) == IF HasSuffix(str, suf) THEN SubSeq(str, 1, Len(str) - Len(suf)) ELSE str
TrimPrefix(str, pre) == IF HasPrefix(str, pre) THEN SubSeq(str, Len(pre) + 1, Len(str)) ELSE str

\* m.marshal() and m.unmarshal(data): the document carries its format.
marshal(f, v) == Doc(f, v)
unmarshal(f, doc, into) ==
    IF doc.kind = "file" /\ doc.fmt = f THEN [err |-> FALSE, val |-> doc.val]
    ELSE [err |-> TRUE, val |-> into]

validateFormat(f) == f \notin {JSON, YAML, TOML}

fileExists(fs, p) == At(fs, p).kind = "file"

\* validatePath: TRUE when it returns an error.
validatePath(ver, fs, p) ==
    CASE ver = "A" -> p = <<>> \/ Missing(At(fs, p)) \/ At(fs, p).kind = "dir"
      [] ver = "B" -> p = <<>> \/ (fileExists(fs, p) /\ At(fs, p).kind = "dir")
      [] OTHER -> Missing(At(fs, p)) \/ At(fs, p).kind = "dir"

validatePathFormatConsistency(p, f) == ~HasSuffix(p, <<f>>)

\* The extension test of Load: TRUE when Load rejects the path.
ExtMismatch(ver, p, f) ==
    CASE ver = "A" -> TrimSuffix(Ext(p), <<".">>) # <<f>>
      [] ver = "B" -> TrimPrefix(Ext(p), <<".">>) # <<f>>
      [] OTHER -> FALSE

\* The first path of the list Load accepts as a candidate, <<>> when none.
RECURSIVE SelectPath(_, _, _, _)
SelectPath(ver, fs, paths, i) ==
    IF i > Len(paths) THEN <<>>
    ELSE IF ver = "A" /\ ~validatePath("A", fs, paths[i]) THEN paths[i]
    ELSE IF ver = "C" /\ ~Missing(At(fs, paths[i])) THEN paths[i]
    ELSE SelectPath(ver, fs, paths, i + 1)

LoadResult(cfg, path, err) == [config |-> cfg, path |-> path, err |-> err]

\* config.go:121-158
LoadA(cfg, path, f, fs, alts, fail) ==
    LET selectedPath == SelectPath("A", fs, <<path>> \o alts, 1)
    IN  IF selectedPath = <<>> THEN LoadResult(cfg, path, "nopath")
        ELSE IF ExtMismatch("A", selectedPath, f) THEN LoadResult(cfg, path, "ext")
        ELSE IF fail = "read" THEN LoadResult(cfg, path, "read")
        ELSE LET old == cfg
                 u == unmarshal(f, At(fs, selectedPath), cfg)
             IN  IF u.err THEN LoadResult(old, path, "decode")
                 ELSE IF Invalid(u.val) THEN LoadResult(old, path, "invalid")
                 ELSE LoadResult(u.val, selectedPath, "none")

\* config.go:419-443
LoadB(cfg, path, f, fs, alts, fail) ==
    IF path = <<>> THEN LoadResult(cfg, path, "nopath")
    ELSE IF ExtMismatch("B", path, f) THEN LoadResult(cfg, path, "ext")
    ELSE IF fail = "read" \/ At(fs, path).kind # "file" THEN LoadResult(cfg, path, "read")
    ELSE LET u == unmarshal(f, At(fs, path), cfg)
         IN  IF u.err THEN LoadResult(u.val, path, "decode")
             ELSE IF Invalid(u.val) THEN LoadResult(u.val, path, "invalid")
             ELSE LoadResult(u.val, path, "none")

\* part_000:129-155
LoadC(cfg, path, f, fs, alts, fail) ==
    LET selectedPath == SelectPath("C", fs, <<path>> \o alts, 1)
    IN  IF selectedPath = <<>> THEN LoadResult(cfg, path, "nopath")
        ELSE IF fail = "read" \/ At(fs, selectedPath).kind # "file"
             THEN LoadResult(cfg, path, "read")
        ELSE LET u == unmarshal(TOML, At(fs, selectedPath), cfg)
             IN  IF u.err THEN LoadResult(u.val, path, "decode")
                 ELSE IF Invalid(u.val) THEN LoadResult(u.val, path, "invalid")
                 ELSE LoadResult(u.val, selectedPath, "none")

\* atomicSave(data, path), run to completion: [fs, tmps, err].
atomicSave(ver, doc, path, fs, tmps, fail) ==
    IF fail = "open" THEN [fs |-> fs, tmps |-> tmps, err |-> TRUE]
    ELSE IF fail = "write" THEN [fs |-> fs, tmps |-> tmps \cup {path}, err |-> TRUE]
    ELSE IF fail = "rename" \/ At(fs, path).kind = "dir"
         THEN [fs |-> fs,
               tmps |-> IF ver = "B" THEN tmps \ {path} ELSE tmps \cup {path},
               err |-> TRUE]
    ELSE [fs |-> [fs EXCEPT ![path] = doc], tmps |-> tmps \ {path}, err |-> FALSE]

\* os.MkdirAll(filepath.Dir(path), 0755): a missing parent directory is made.
MkdirAll(fs, path) ==
    IF path \in DOMAIN fs /\ fs[path].kind = "nodir" THEN [fs EXCEPT ![path] = NoFile] ELSE fs

\* A Save that writes before it asks the validation hook.
SaveResult_WriteFirst(ver, cfg, path, f, fs, tmps, fail) ==
    LET r == atomicSave(ver, marshal(f, cfg), path, MkdirAll(fs, path), tmps, fail)
    IN  [fs |-> r.fs, tmps |-> r.tmps,
         err |-> IF Invalid(cfg) THEN "invalid" ELSE IF r.err THEN "atomic" ELSE "none"]

\* Manager.Save: [fs, tmps, err].  MkdirAll can fail only where it has a
\* directory to make.
SaveResult(ver, cfg, path, f, fs, tmps, fail) ==
    IF Invalid(cfg) THEN [fs |-> fs, tmps |-> tmps, err |-> "invalid"]
    ELSE IF fail = "mkdir" /\ At(fs, path).kind = "nodir"
         THEN [fs |-> fs, tmps |-> tmps, err |-> "mkdir"]
    ELSE LET r == atomicSave(ver, marshal(f, cfg), path, MkdirAll(fs, path), tmps, fail)
         IN  [fs |-> r.fs, tmps |-> r.tmps, err |-> IF r.err THEN "atomic" ELSE "none"]

\* An ensureConfigFileExist that saves whatever the path holds.
ensureConfigFileExist_Always(ver, cfg, path, f, fs, tmps, fail) ==
    LET r == SaveResult(ver, cfg, path, f, fs, tmps, fail)
    IN  [fs |-> r.fs, tmps |-> r.tmps, err |-> r.err # "none"]

\* m.ensureConfigFileExist(): [fs, tmps, err].
ensureConfigFileExist(ver, cfg, path, f, fs, tmps, fail) ==
    IF Missing(At(fs, path))
    THEN LET r == SaveResult(ver, cfg, path, f, fs, tmps, fail)
         IN  [fs |-> r.fs, tmps |-> r.tmps, err |-> r.err # "none"]
    ELSE [fs |-> fs, tmps |-> tmps, err |-> FALSE]

\* New(appName, defaultConfig, options...): force is the ForcePath option (<<>>
\* when not given), skip the SkipSaveOnCreation option, f the format option.
NewManager(ver, defaultConfig, force, skip, f, fs, tmps, fail) ==
    LET fmt == IF ver = "C" THEN TOML ELSE f
        bad == [err |-> TRUE, config |-> defaultConfig, path |-> <<>>, format |-> fmt,
                fs |-> fs, tmps |-> tmps]
        path == IF force = <<>> THEN XdgConfigPath(fmt) ELSE force
    IN  IF ver # "C" /\ validateFormat(fmt) THEN bad
        ELSE IF ver = "B" /\ force # <<>> /\ validatePathFormatConsistency(force, fmt) THEN bad
        ELSE IF ver # "C" /\ force # <<>> /\ fileExists(fs, force) /\ validatePath(ver, fs, force)
             THEN bad
        ELSE IF ver = "B" \/ skip
             THEN [err |-> FALSE, config |-> defaultConfig, path |-> path, format |-> fmt,
                   fs |-> fs, tmps |-> tmps]
        ELSE LET e == ensureConfigFileExist(ver, defaultConfig, path, fmt, fs, tmps, fail)
             IN  [err |-> e.err, config |-> defaultConfig, path |-> path, format |-> fmt,
                  fs |-> e.fs, tmps |-> e.tmps]

\* SetPath(newPath): [path, err].
SetPathResult(ver, path, f, fs, newPath) ==
    IF ver = "A"
    THEN [path |-> path, err |-> ~fileExists(fs, newPath) \/ validatePath("A", fs, newPath)]
    ELSE IF validatePathFormatConsistency(newPath, f) THEN [path |-> path, err |-> TRUE]
    ELSE [path |-> newPath, err |-> FALSE]

\* Where a configuration call may meet a failing file system.
\* Manager.UseConfigFile(newPath, opts...) of part_000: [config, path, fs,
\* tmps, err].  With WithAutoLoad an existing newPath is handed to Load as its
\* alternative path.
UseConfigFile(cfg, path, f, fs, tmps, newPath, autoLoad, autoCreate, fail) ==
    LET kept(err) == [config |-> cfg, path |-> path, fs |-> fs, tmps |-> tmps, err |-> err]
    IN  IF ~Missing(At(fs, newPath))
        THEN IF At(fs, newPath).kind = "dir" THEN kept("validation")
             ELSE IF autoLoad
                  THEN LET r == LoadC(cfg, path, f, fs, <<newPath>>, fail)
                       IN  [config |-> r.config, path |-> r.path, fs |-> fs, tmps |-> tmps,
                            err |-> r.err]
             ELSE [kept("none") EXCEPT !.path = newPath]
        ELSE IF autoCreate
             THEN LET r == SaveResult("C", cfg, newPath, f, fs, tmps, fail)
                  IN  [config |-> cfg, path |-> IF r.err # "none" THEN path ELSE newPath,
                       fs |-> r.fs, tmps |-> r.tmps,
                       err |-> IF r.err # "none" THEN "create" ELSE "none"]
        ELSE kept("notfound")

CmFailPoints == {"none", "mkdir", "open", "write", "rename"}
\* The alternative paths of a Load call.
AltLists(f) == UNION {[1 .. n -> PathsOf(f)] : n \in 0 .. MaxAlts}

\* The last call: its name and error, the value and path held before it,
\* whether the call before it was a Save that returned nil, the alternative
\* paths and the failure of the file system a Load met, and whether the call
\* left files, directories and temporary files as they were; for a New that
\* is followed as a call, what the path it chose held before.
NoManagerCall == [op |-> "New", err |-> "none", preConfig |-> 0, prePath |-> <<>>,
                  afterSave |-> FALSE, alts |-> <<>>, fail |-> "none", fsSame |-> TRUE,
                  preFile |-> NoFile]

IdleCM ==
    /\ mVer = "A" /\ mFormat = TOML /\ mConfig = 0 /\ mPath = XdgConfigPath(TOML)
    /\ fsFiles = [p \in PathsOf(TOML) |-> NoFile] /\ fsTmps = {} /\ mLast = NoManagerCall

InitCM ==
    \E ver \in Versions, f \in Formats \cup {"ini"}, skip \in BOOLEAN, d \in Cfgs,
       fail \in CmFailPoints :
        \E force \in {<<>>} \cup PathsOf(f), fs0 \in [PathsOf(f) -> FileStates(f)] :
            LET n == NewManager(ver, d, force, skip, f, fs0, {}, fail)
            IN  /\ ver = "C" => f = TOML
                /\ ~n.err
                /\ mVer = ver
                /\ mFormat = n.format
                /\ mConfig = n.config
                /\ mPath = n.path
                /\ fsFiles = n.fs
                /\ fsTmps = n.tmps
                /\ mLast = [NoManagerCall EXCEPT !.preConfig = d, !.prePath = n.path]

\* Records the call op and installs its effects.
InstallCM(op, err, alts, fail, cfg, path, fs, tmps) ==
    /\ mConfig' = cfg
    /\ mPath' = path
    /\ fsFiles' = fs
    /\ fsTmps' = tmps
    /\ mLast' = [op |-> op, err |-> err, preConfig |-> mConfig, prePath |-> mPath,
                 afterSave |-> (mLast.op = "Save" /\ mLast.err = "none"),
                 alts |-> alts, fail |-> fail,
                 fsSame |-> (fs = fsFiles /\ tmps = fsTmps), preFile |-> NoFile]
    /\ UNCHANGED <<mVer, mFormat>>

\* m.Load(alternativePaths...); version B takes no alternatives.
CM_Load ==
    \E alts \in AltLists(mFormat), fail \in {"none", "read"} :
        /\ mVer = "B" => alts = <<>>
        /\ LET r == CASE mVer = "A" -> LoadA(mConfig, mPath, mFormat, fsFiles, alts, fail)
                      [] mVer = "B" -> LoadB(mConfig, mPath, mFormat, fsFiles, alts, fail)
                      [] OTHER -> LoadC(mConfig, mPath, mFormat, fsFiles, alts, fail)
           IN  InstallCM("Load", r.err, alts, fail, r.config, r.path, fsFiles, fsTmps)
        /\ UNCHANGED nonCmVars

\* m.Save()
CM_Save ==
    \E fail \in CmFailPoints :
        /\ LET r == SaveResult(mVer, mConfig, mPath, mFormat, fsFiles, fsTmps, fail)
           IN  InstallCM("Save", r.err, <<>>, "none", mConfig, mPath, r.fs, r.tmps)
        /\ UNCHANGED nonCmVars

\* m.SetPath(newPath), versions A and B
CM_SetPath ==
    \E newPath \in PathsOf(mFormat) \cup {OtherPath} :
        /\ mVer \in {"A", "B"}
        /\ LET r == SetPathResult(mVer, mPath, mFormat, fsFiles, newPath)
           IN  InstallCM("SetPath", IF r.err THEN "path" ELSE "none", <<newPath>>, "none",
                         mConfig, r.path, fsFiles, fsTmps)
        /\ UNCHANGED nonCmVars

\* Version C: Config() returns the pointer to the held value, which the caller
\* may assign through.
CM_Assign ==
    \E v \in Cfgs :
        /\ mVer = "C"
        /\ InstallCM("Assign", "none", <<>>, "none", v, mPath, fsFiles, fsTmps)
        /\ UNCHANGED nonCmVars

NextCM == CM_Load \/ CM_Save \/ CM_SetPath \/ CM_Assign

\* C25: SetPath(newPath) (config.go, both versions): after it returned nil,
\* Path() returns newPath, which is where the next Save writes; after it
\* returned an error, Path() is unchanged.
C25_SetPathSwitches ==
    (mVer \in {"A", "B"} /\ mLast.op = "SetPath")
        => /\ mLast.err = "none" => mPath = mLast.alts[1]
           /\ mLast.err # "none" => mPath = mLast.prePath

\* m.UseConfigFile(newPath, opts...), version C
CM_UseConfigFile ==
    \E newPath \in PathsOf(mFormat), autoLoad \in BOOLEAN, autoCreate \in BOOLEAN,
       fail \in CmFailPoints \cup {"read"} :
        /\ mVer = "C"
        /\ LET r == UseConfigFile(mConfig, mPath, mFormat, fsFiles, fsTmps, newPath,
                                  autoLoad, autoCreate, fail)
           IN  InstallCM(IF autoLoad THEN "UseConfigFile(WithAutoLoad)" ELSE "UseConfigFile",
                         r.err, <<newPath>>, fail, r.config, r.path, r.fs, r.tmps)
        /\ UNCHANGED nonCmVars

NextUC == CM_UseConfigFile \/ CM_Assign

\* C24: UseConfigFile(newPath, WithAutoLoad()) with newPath an existing
\* readable regular file loads from newPath and makes it the active path:
\* when it returns nil, Path() is newPath and the held configuration is the
\* one read from newPath, whatever file exists at the path that was active
\* before.
C24_AutoLoadReadsNewPath ==
    (/\ mVer = "C" /\ mLast.op = "UseConfigFile(WithAutoLoad)" /\ mLast.err = "none"
     /\ At(fsFiles, mLast.alts[1]).kind = "file")
        => /\ mPath = mLast.alts[1]
           /\ mConfig = At(fsFiles, mPath).val


(***************************************************************************)
(* Properties of the configuration manager (SpecCM).                       *)
(***************************************************************************)
\* C5: whenever Manager.Load (config.go, both versions) returns an error,
\* Config() afterwards returns the value that was held before the call.
C5_LoadErrorPreservesConfig ==
    (mVer \in {"A", "B"} /\ mLast.op = "Load" /\ mLast.err # "none")
        => mConfig = mLast.preConfig

\* C6: for every format, on a manager whose path carries the format's
\* extension, a Save() that returned nil followed by Load() (the file system
\* not failing the read) returns no error and leaves Config() equal to the
\* value that was saved.
C6_SaveLoadRoundTrip ==
    (/\ mVer \in {"A", "B"}
     /\ mLast.op = "Load" /\ mLast.afterSave
     /\ Ext(mLast.prePath) = <<".", mFormat>>
     /\ mLast.err # "read")
        => (mLast.err = "none" /\ mConfig = mLast.preConfig)

\* C13: when the validation hook of the held value returns an error, Save
\* returns an error before it touches the file system: the held value, the
\* active path, the content of the target file and the directories are as
\* they were, and no temporary file exists that did not exist before.
C13_InvalidSaveTouchesNothing ==
    (mLast.op = "Save" /\ mLast.err = "invalid")
        => (/\ mConfig = mLast.preConfig
            /\ mPath = mLast.prePath
            /\ mLast.fsSame)

\* A rejected Save whose target directory is missing: a Save that went on
\* would have made the directory.
C13_Witness ==
    /\ mLast.op = "Save" /\ mLast.err = "invalid"
    /\ At(fsFiles, mPath).kind = "nodir"
    /\ mPath \notin fsTmps

\* The first path of the list that holds a regular file, <<>> when none.
RECURSIVE FirstRegularFile(_, _, _)
FirstRegularFile(fs, paths, i) ==
    IF i > Len(paths) THEN <<>>
    ELSE IF At(fs, paths[i]).kind = "file" THEN paths[i]
    ELSE FirstRegularFile(fs, paths, i + 1)

\* C14: Load(alternatives...) selects the first path of [active path,
\* alternatives in the given order] that is an existing regular file; when
\* Load returns nil the active path is the selected path and the held value
\* is the value read from it; when Load returns an error the active path is
\* unchanged.
C14_LoadSelectsFirstRegularFile ==
    (mVer \in {"A", "C"} /\ mLast.op = "Load")
        => LET paths == <<mLast.prePath>> \o mLast.alts
               selectedPath == SelectPath(mVer, fsFiles, paths, 1)
           IN  /\ selectedPath = FirstRegularFile(fsFiles, paths, 1)
               /\ mLast.err = "none"
                    => (mPath = selectedPath /\ mConfig = At(fsFiles, selectedPath).val)
               /\ mLast.err # "none" => mPath = mLast.prePath

(***************************************************************************)
(* The record store under concurrency: one goroutine calls Insert, Update, *)
(* Delete and Save, another the reading operations.  Each call is split at *)
(* its lock operations and at its accesses to db.data.                     *)
(***************************************************************************)
FreeLock == [w |-> FALSE, r |-> 0]
IdleTxn == [pc |-> "idle", op |-> "", id |-> "", val |-> 0, old |-> EmptyMap, err |-> "none"]
NoOut == [n |-> 0, ok |-> TRUE, map |-> EmptyMap, bytes |-> <<>>]
IdleRd == [pc |-> "idle", op |-> "", id |-> "", locked |-> FALSE, during |-> FALSE,
           out |-> NoOut]

\* The reading operations that take db.mu.RLock(); Marshal takes no lock.
LockedReads == {"Get", "Contains", "Count", "GetAll"}

\* What the reading operation op returns on the map m.
ReadOut(op, m, id, mm, pre, ind) ==
    CASE op = "Get" -> [NoOut EXCEPT !.n = Get(m, id).val, !.ok = (Get(m, id).err = "none")]
      [] op = "Contains" -> [NoOut EXCEPT !.ok = Contains(m, id)]
      [] op = "Count" -> [NoOut EXCEPT !.n = Count(m)]
      [] op = "GetAll" -> [NoOut EXCEPT !.map = GetAll(m)]
      [] OTHER -> [NoOut EXCEPT !.ok = ~Marshal(m, mm, pre, ind).err,
                                !.bytes = Marshal(m, mm, pre, ind).bytes]

\* db.data[id] = value, delete(db.data, id)
Mutated(op, m, id, v) == IF op = "Delete" THEN Remove(m, id) ELSE Put(m, id, v)

\* The error of a call that fails its precondition.
Rejection(op, id) ==
    IF op # "Delete" /\ id = "" THEN "empty"
    ELSE IF op = "Insert" THEN "exists" ELSE "notfound"

IdleDC == dbMu = FreeLock /\ txn = IdleTxn /\ rd = IdleRd /\ crashed = FALSE

\* A store made by New on a path with no file.
InitDBc == InitDB /\ file = Absent

\* Insert, Update, Delete from db.mu.Lock() to a failed precondition and the
\* return (deferred Unlock).
DC_Reject ==
    \E op \in Mutations, id \in Ids :
        /\ ~crashed /\ txn.pc = "idle"
        /\ ~dbMu.w /\ dbMu.r = 0
        /\ ~Admitted(op, data, id)
        /\ txn' = [IdleTxn EXCEPT !.err = Rejection(op, id)]
        /\ UNCHANGED <<data, autoSave, method, prefix, indent, file, tmpFiles, dbMu, rd, crashed>>
        /\ UNCHANGED nonDcVars

\* Insert, Update, Delete from db.mu.Lock() through
\* oldData := maps.Clone(db.data) to the write to db.data.
DC_Mutate ==
    \E op \in Mutations, id \in Ids, v \in 0 .. MaxVal :
        /\ ~crashed /\ txn.pc = "idle"
        /\ ~dbMu.w /\ dbMu.r = 0
        /\ op = "Delete" => v = 0
        /\ Admitted(op, data, id)
        /\ dbMu' = [dbMu EXCEPT !.w = TRUE]
        /\ data' = Mutated(op, data, id, v)
        /\ txn' = [IdleTxn EXCEPT !.pc = "mutated", !.op = op, !.id = id, !.val = v,
                                  !.old = data]
        /\ UNCHANGED <<autoSave, method, prefix, indent, file, tmpFiles, rd, crashed>>
        /\ UNCHANGED nonDcVars

\* The same, with the write to db.data at the same time as Marshal reads it, a
\* data race: the reader gets the map before the write or after it, or the
\* runtime stops the program (concurrent map read and map write).
DC_MutateRacing ==
    \E op \in Mutations, id \in Ids, v \in 0 .. MaxVal, outcome \in {"old", "new", "fatal"} :
        /\ ~crashed /\ txn.pc = "idle" /\ rd.pc = "marshaling"
        /\ ~dbMu.w /\ dbMu.r = 0
        /\ op = "Delete" => v = 0
        /\ Admitted(op, data, id)
        /\ dbMu' = [dbMu EXCEPT !.w = TRUE]
        /\ data' = Mutated(op, data, id, v)
        /\ txn' = [IdleTxn EXCEPT !.pc = "mutated", !.op = op, !.id = id, !.val = v,
                                  !.old = data]
        /\ crashed' = (outcome = "fatal")
        /\ rd' = [rd EXCEPT !.pc = IF outcome = "fatal" THEN "marshaling" ELSE "returned",
                            !.during = TRUE,
                            !.out = IF outcome = "fatal" THEN NoOut
                                    ELSE ReadOut("Marshal", IF outcome = "old" THEN data ELSE data',
                                                 "", method, prefix, indent)]
        /\ UNCHANGED <<autoSave, method, prefix, indent, file, tmpFiles>>
        /\ UNCHANGED nonDcVars

\* if db.autoSave { internalSave, db.data = oldData on failure }; return
DC_Commit ==
    \E fail \in SaveFailures(autoSave) :
        /\ ~crashed /\ txn.pc = "mutated"
        /\ LET r == Commit(txn.old, data, autoSave, method, prefix, indent, file, tmpFiles, fail)
           IN  /\ data' = r.data
               /\ file' = r.file
               /\ tmpFiles' = r.tmps
               /\ txn' = [IdleTxn EXCEPT !.err = r.err]
        /\ dbMu' = [dbMu EXCEPT !.w = FALSE]
        /\ UNCHANGED <<autoSave, method, prefix, indent, rd, crashed>>
        /\ UNCHANGED nonDcVars

\* db.mu.RLock() at the head of Get, Contains, Count, GetAll
DC_RLock ==
    \E op \in LockedReads, id \in Ids :
        /\ ~crashed /\ rd.pc \in {"idle", "returned"}
        /\ op \in {"Count", "GetAll"} => id = ""
        /\ ~dbMu.w
        /\ dbMu' = [dbMu EXCEPT !.r = @ + 1]
        /\ rd' = [IdleRd EXCEPT !.pc = "rlocked", !.op = op, !.id = id, !.locked = TRUE]
        /\ UNCHANGED <<data, autoSave, method, prefix, indent, file, tmpFiles, txn, crashed>>
        /\ UNCHANGED nonDcVars

\* The read of db.data under the read lock, and the return (deferred RUnlock).
DC_Read ==
    /\ ~crashed /\ rd.pc = "rlocked"
    /\ rd' = [rd EXCEPT !.pc = "returned", !.during = (txn.pc = "mutated"),
                        !.out = ReadOut(rd.op, data, rd.id, method, prefix, indent)]
    /\ dbMu' = [dbMu EXCEPT !.r = @ - 1]
    /\ UNCHANGED <<data, autoSave, method, prefix, indent, file, tmpFiles, txn, crashed>>
    /\ UNCHANGED nonDcVars

\* db.Marshal() called from outside: no lock is taken.
DC_MarshalCall ==
    /\ ~crashed /\ rd.pc \in {"idle", "returned"}
    /\ rd' = [IdleRd EXCEPT !.pc = "marshaling", !.op = "Marshal"]
    /\ UNCHANGED <<data, autoSave, method, prefix, indent, file, tmpFiles, dbMu, txn, crashed>>
    /\ UNCHANGED nonDcVars

\* Marshal reads db.data and returns.
DC_MarshalRead ==
    /\ ~crashed /\ rd.pc = "marshaling"
    /\ rd' = [rd EXCEPT !.pc = "returned", !.during = (txn.pc = "mutated"),
                        !.out = ReadOut("Marshal", data, "", method, prefix, indent)]
    /\ UNCHANGED <<data, autoSave, method, prefix, indent, file, tmpFiles, dbMu, txn, crashed>>
    /\ UNCHANGED nonDcVars

NextDBc ==
    \/ DC_Reject \/ DC_Mutate \/ DC_MutateRacing \/ DC_Commit
    \/ DC_RLock \/ DC_Read \/ DC_MarshalCall \/ DC_MarshalRead

\* C8: every reading operation of the record store (Get, Contains, Count,
\* GetAll, Marshal) holds db.mu for the whole read, so what it returns was never
\* read while an Insert, Update or Delete was between its mutation and its
\* commit or rollback.
C8_ReadsHoldTheLock ==
    rd.pc = "returned" => (rd.locked /\ ~rd.during)

(***************************************************************************)
(* The configuration manager under concurrency: one goroutine calls Load   *)
(* and Save, another Config() and Path().  Load is split at its accesses   *)
(* to the held value.                                                      *)
(***************************************************************************)
IdleLd == [pc |-> "idle", sel |-> <<>>, doc |-> NoFile, old |-> 0, err |-> "none"]
IdleRdr == [pc |-> "idle", op |-> "", locked |-> FALSE, during |-> FALSE,
            cfg |-> 0, path |-> <<>>]

IdleCC == mMu = FreeLock /\ ld = IdleLd /\ rdr = IdleRdr

\* Whether the operation op of the version ver takes m.mu.
TakesLock(ver, op) ==
    CASE ver = "A" -> op \in {"Load", "Save"}
      [] ver = "B" -> TRUE
      [] OTHER -> op = "Save"

\* Load up to os.ReadFile: [err, sel], the error and the path read.
LoadSelect(ver, path, f, fs, alts, fail) ==
    LET sel == IF ver = "B" THEN path ELSE SelectPath(ver, fs, <<path>> \o alts, 1)
    IN  IF sel = <<>> THEN [err |-> "nopath", sel |-> sel]
        ELSE IF ExtMismatch(ver, sel, f) THEN [err |-> "ext", sel |-> sel]
        ELSE IF fail = "read" \/ At(fs, sel).kind # "file" THEN [err |-> "read", sel |-> sel]
        ELSE [err |-> "none", sel |-> sel]

\* Load returns an error before it touches the held value.
CC_LoadFails ==
    \E alts \in AltLists(mFormat), fail \in {"none", "read"} :
        /\ ld.pc = "idle"
        /\ mVer = "B" => alts = <<>>
        /\ TakesLock(mVer, "Load") => (~mMu.w /\ mMu.r = 0)
        /\ LET r == LoadSelect(mVer, mPath, mFormat, fsFiles, alts, fail)
           IN  /\ r.err # "none"
               /\ ld' = [IdleLd EXCEPT !.err = r.err]
        /\ UNCHANGED <<mVer, mFormat, mConfig, mPath, fsFiles, fsTmps, mMu, rdr>>
        /\ UNCHANGED nonCcVars

\* Load from its start (m.mu.Lock() where the version takes it) to the data
\* os.ReadFile returned.
CC_LoadRead ==
    \E alts \in AltLists(mFormat) :
        /\ ld.pc = "idle"
        /\ mVer = "B" => alts = <<>>
        /\ TakesLock(mVer, "Load") => (~mMu.w /\ mMu.r = 0)
        /\ LET r == LoadSelect(mVer, mPath, mFormat, fsFiles, alts, "none")
           IN  /\ r.err = "none"
               /\ ld' = [IdleLd EXCEPT !.pc = "read", !.sel = r.sel, !.doc = At(fsFiles, r.sel)]
        /\ mMu' = [mMu EXCEPT !.w = TakesLock(mVer, "Load")]
        /\ UNCHANGED <<mVer, mFormat, mConfig, mPath, fsFiles, fsTmps, rdr>>
        /\ UNCHANGED nonCcVars

\* m.unmarshal(data) into the held value (version A first copies it to old).
CC_Unmarshal ==
    /\ ld.pc = "read"
    /\ LET u == unmarshal(mFormat, ld.doc, mConfig)
       IN  IF u.err
           THEN /\ mConfig' = IF mVer = "A" THEN mConfig ELSE u.val
                /\ ld' = [IdleLd EXCEPT !.err = "decode"]
                /\ mMu' = [mMu EXCEPT !.w = FALSE]
           ELSE /\ mConfig' = u.val
                /\ ld' = [ld EXCEPT !.pc = "unmarshalled", !.old = mConfig]
                /\ mMu' = mMu
    /\ UNCHANGED <<mVer, mFormat, mPath, fsFiles, fsTmps, rdr>>
    /\ UNCHANGED nonCcVars

\* The Validate() hook on the deserialized value, and the return.
CC_Validate ==
    /\ ld.pc = "unmarshalled"
    /\ IF Invalid(mConfig)
       THEN /\ mConfig' = IF mVer = "A" THEN ld.old ELSE mConfig
            /\ mPath' = mPath
            /\ ld' = [IdleLd EXCEPT !.err = "invalid"]
       ELSE /\ mConfig' = mConfig
            /\ mPath' = IF mVer = "B" THEN mPath ELSE ld.sel
            /\ ld' = IdleLd
    /\ mMu' = [mMu EXCEPT !.w = FALSE]
    /\ UNCHANGED <<mVer, mFormat, fsFiles, fsTmps, rdr>>
    /\ UNCHANGED nonCcVars

\* m.Save(), from Lock to Unlock.
CC_Save ==
    \E fail \in CmFailPoints :
        /\ ~mMu.w /\ mMu.r = 0
        /\ LET r == SaveResult(mVer, mConfig, mPath, mFormat, fsFiles, fsTmps, fail)
           IN  fsFiles' = r.fs /\ fsTmps' = r.tmps
        /\ UNCHANGED <<mVer, mFormat, mConfig, mPath, mMu, ld, rdr>>
        /\ UNCHANGED nonCcVars

\* Config() or Path() is called (m.mu.RLock() where the version takes it).
CR_Call ==
    \E op \in {"Config", "Path"} :
        /\ rdr.pc \in {"idle", "returned"}
        /\ TakesLock(mVer, op) => ~mMu.w
        /\ mMu' = IF TakesLock(mVer, op) THEN [mMu EXCEPT !.r = @ + 1] ELSE mMu
        /\ rdr' = [IdleRdr EXCEPT !.pc = "reading", !.op = op, !.locked = TakesLock(mVer, op)]
        /\ UNCHANGED <<mVer, mFormat, mConfig, mPath, fsFiles, fsTmps, ld>>
        /\ UNCHANGED nonCcVars

\* The read of *m.config or m.path, and the return.
CR_Read ==
    /\ rdr.pc = "reading"
    /\ rdr' = [rdr EXCEPT !.pc = "returned", !.during = (ld.pc = "unmarshalled"),
                          !.cfg = IF rdr.op = "Config" THEN mConfig ELSE 0,
                          !.path = IF rdr.op = "Path" THEN mPath ELSE <<>>]
    /\ mMu' = IF rdr.locked THEN [mMu EXCEPT !.r = @ - 1] ELSE mMu
    /\ UNCHANGED <<mVer, mFormat, mConfig, mPath, fsFiles, fsTmps, ld>>
    /\ UNCHANGED nonCcVars

NextCMc == CC_LoadFails \/ CC_LoadRead \/ CC_Unmarshal \/ CC_Validate \/ CC_Save \/ CR_Call \/ CR_Read

\* C7: every public operation of the configuration manager runs under m.mu:
\* Load holds it while it works on the held value, and what Config() or Path()
\* returns was read under it, never while a Load had deserialized a value it
\* had not yet validated and committed.
C7_OperationsUnderTheLock ==
    /\ ld.pc # "idle" => mMu.w
    /\ rdr.pc = "returned" => (rdr.locked /\ ~rdr.during)

(***************************************************************************)
(* A record store saved, loaded back and marshaled: jsonstore 1.0.0        *)
(* (part_006, always the hybrid rendering) and 2.0.0 (part_007).           *)
(***************************************************************************)
StoreVersions == {"1.0.0", "2.0.0"}

\* The enumerations of the set S: the orders in which a range over a map with
\* these keys may yield them, free in every range statement.
RECURSIVE Perms(_)
Perms(S) ==
    IF S = {} THEN {<<>>}
    ELSE UNION {{<<x>> \o q : q \in Perms(S \ {x})} : x \in S}

\* The place of id in the lexicographic order of strings.
Rank(id) == CHOOSE i \in 1 .. Len(IdOrder) : IdOrder[i] = id

RECURSIVE InsertSorted(_, _)
InsertSorted(k, sorted) ==
    IF sorted = <<>> THEN <<k>>
    ELSE IF Rank(k) <= Rank(Head(sorted)) THEN <<k>> \o sorted
    ELSE <<Head(sorted)>> \o InsertSorted(k, Tail(sorted))

\* sort.Strings(keys)
RECURSIVE SortStrings(_)
SortStrings(keys) ==
    IF keys = <<>> THEN <<>>
    ELSE InsertSorted(Head(keys), SortStrings(Tail(keys)))

\* A hybrid rendering that writes the keys as range yielded them.
HybridRender_Unsorted(m, ranged) ==
    [err |-> FALSE,
     bytes |-> <<Punct("{"), Space("\n")>> \o HybridMembers(m, ranged, 1) \o <<Punct("}")>>]

\* The hybrid rendering, the keys collected by a range that yielded them in
\* the order ranged: [err, bytes].
HybridRender(m, ranged) ==
    IF \E k \in DOMAIN m : Unsupported(m[k]) THEN [err |-> TRUE, bytes |-> <<>>]
    ELSE [err |-> FALSE,
          bytes |-> <<Punct("{"), Space("\n")>> \o HybridMembers(m, SortStrings(ranged), 1)
                    \o <<Punct("}")>>]

\* What the store renders: save() of 1.0.0, Marshal() of 2.0.0.
MarshalOf(ver, m, mm, pre, ind, ranged) ==
    IF ver = "1.0.0" \/ mm = Hybrid THEN HybridRender(m, ranged)
    ELSE Marshal(m, mm, pre, ind)

\* Load(path, opts...) on a path whose file is f0: [err, db].
Load(f0, opts) ==
    LET optionSet == ApplyOptions(ZeroOptions, opts)
        db == [data |-> EmptyMap, marshalingMethod |-> optionSet.marshalingMethod,
               indent |-> optionSet.indent, prefix |-> optionSet.prefix,
               autoSave |-> optionSet.autoSave]
    IN  IF ~f0.exists THEN [err |-> TRUE, db |-> db]
        ELSE LET u == Unmarshal(f0.bytes, db.data)
             IN  [err |-> u.err, db |-> [db EXCEPT !.data = u.map]]

\* The tail of save() of 1.0.0: os.WriteFile(tmpPath), os.Rename: [file, tmp, err].
saveToTmp(bytes, f, tmp, fail) ==
    IF fail = "createtemp" THEN [file |-> f, tmp |-> tmp, err |-> TRUE]
    ELSE IF fail \in {"write", "rename"} THEN [file |-> f, tmp |-> TRUE, err |-> TRUE]
    ELSE [file |-> FileOf(bytes), tmp |-> FALSE, err |-> FALSE]

\* Save(): [file, tmp, err].
StoreSave(ver, m, mm, pre, ind, ranged, f, tmp, fail) ==
    LET d == MarshalOf(ver, m, mm, pre, ind, ranged)
    IN  IF d.err THEN [file |-> f, tmp |-> tmp, err |-> TRUE]
        ELSE IF ver = "1.0.0" THEN saveToTmp(d.bytes, f, tmp, fail)
        ELSE LET w == writeToFile(d.bytes, f, 0, fail)
             IN  [file |-> w.file, tmp |-> tmp, err |-> w.err]

\* The marshaling options a store is made with; 1.0.0 has none.
RtOptionLists(ver) ==
    IF ver = "1.0.0" THEN {<<>>}
    ELSE {<<>>, <<OptCompact>>, <<OptIndent("", "  ")>>, <<OptIndent("\t", " ")>>,
          <<OptIndent("> ", "  ")>>}

\* Where Save may meet a failing file system.
RtFailPoints == {"none", "createtemp", "write", "rename"}

NoStoreCall == [op |-> "New", err |-> FALSE, map |-> EmptyMap, first |-> <<>>, again |-> <<>>,
                ranged |-> <<>>, rangedAgain |-> <<>>, opts |-> <<>>]

IdleRT ==
    /\ rVer = "2.0.0" /\ rMethod = Compact /\ rPrefix = "" /\ rIndent = ""
    /\ rData = EmptyMap /\ rFile = Absent /\ rTmp = FALSE
    /\ rSaved = [ok |-> FALSE, map |-> EmptyMap] /\ rLast = NoStoreCall

\* New(path, opts...) on a path with no file.
InitRT ==
    \E ver \in StoreVersions :
        \E opts \in RtOptionLists(ver) :
            LET n == New(Absent, opts)
            IN  /\ ~n.err
                /\ rVer = ver
                /\ rMethod = IF ver = "1.0.0" THEN Hybrid ELSE n.db.marshalingMethod
                /\ rPrefix = n.db.prefix
                /\ rIndent = n.db.indent
                /\ rData = n.db.data
                /\ rFile = Absent
                /\ rTmp = FALSE
                /\ rSaved = [ok |-> FALSE, map |-> EmptyMap]
                /\ rLast = NoStoreCall

\* Insert, Update, Delete on a store without auto-save.
RT_Mutate ==
    \E op \in Mutations, id \in Ids, v \in 0 .. MaxVal :
        /\ op = "Delete" => v = 0
        /\ rData' = IF Admitted(op, rData, id) THEN Mutated(op, rData, id, v) ELSE rData
        /\ rLast' = [NoStoreCall EXCEPT !.op = op, !.err = ~Admitted(op, rData, id)]
        /\ UNCHANGED <<rVer, rMethod, rPrefix, rIndent, rFile, rTmp, rSaved>>
        /\ UNCHANGED nonRtVars

\* db.Save()
RT_Save ==
    \E fail \in RtFailPoints, ranged \in Perms(DOMAIN rData) :
        /\ LET r == StoreSave(rVer, rData, rMethod, rPrefix, rIndent, ranged, rFile, rTmp, fail)
           IN  /\ rFile' = r.file
               /\ rTmp' = r.tmp
               /\ rSaved' = IF r.err THEN rSaved ELSE [ok |-> TRUE, map |-> rData]
               /\ rLast' = [NoStoreCall EXCEPT !.op = "Save", !.err = r.err]
        /\ UNCHANGED <<rVer, rMethod, rPrefix, rIndent, rData>>
        /\ UNCHANGED nonRtVars

\* Load(path) on the path of the store, with no options.
RT_Load ==
    /\ LET l == Load(rFile, <<>>)
       IN  rLast' = [NoStoreCall EXCEPT !.op = "Load", !.err = l.err,
                                        !.map = IF l.err THEN EmptyMap ELSE l.db.data]
    /\ UNCHANGED <<rVer, rMethod, rPrefix, rIndent, rData, rFile, rTmp, rSaved>>
    /\ UNCHANGED nonRtVars

\* The store is rendered twice with no call between: by this store again, or
\* by another store that holds the same mapping.  Each rendering ranges over
\* the map in an order of its own.
RT_Marshal ==
    \E ranged \in Perms(DOMAIN rData), rangedAgain \in Perms(DOMAIN rData) :
        /\ LET d1 == MarshalOf(rVer, rData, rMethod, rPrefix, rIndent, ranged)
               d2 == MarshalOf(rVer, rData, rMethod, rPrefix, rIndent, rangedAgain)
           IN  rLast' = [NoStoreCall EXCEPT !.op = "Marshal", !.err = d1.err \/ d2.err,
                                            !.first = d1.bytes, !.again = d2.bytes,
                                            !.ranged = ranged, !.rangedAgain = rangedAgain]
        /\ UNCHANGED <<rVer, rMethod, rPrefix, rIndent, rData, rFile, rTmp, rSaved>>
        /\ UNCHANGED nonRtVars

NextRT == RT_Mutate \/ RT_Save \/ RT_Load \/ RT_Marshal

\* C11: after Save() succeeded on a store, Load(path) on the same path
\* succeeds and returns a store whose map equals the saved map, for each
\* rendering (compact, indented, hybrid), the empty map included.
C11_StoreRoundTrip ==
    (rLast.op = "Load" /\ rSaved.ok) => (~rLast.err /\ rLast.map = rSaved.map)

\* The key tokens of a rendering, in the order they are written.
KeysOf(bytes) == SelectSeq(bytes, LAMBDA x : x.t = "k")

\* The keys of a rendering stand in lexicographic order.
KeysAscending(bytes) ==
    \A i, j \in 1 .. Len(KeysOf(bytes)) :
        i < j => Rank(KeysOf(bytes)[i].s) < Rank(KeysOf(bytes)[j].s)

\* Every key-value pair of a rendering has a line of its own: a line break
\* stands before the first key, between any two keys and after the last value.
OnePairPerLine(bytes) ==
    LET isKey(i) == bytes[i].t = "k"
        isBreak(i) == bytes[i] = Space("\n")
    IN  \A i \in 1 .. Len(bytes) :
            isKey(i) =>
                /\ \E b \in 1 .. (i - 1) : isBreak(b) /\ \A x \in (b + 1) .. (i - 1) : ~isKey(x)
                /\ \E b \in (i + 1) .. Len(bytes) : isBreak(b) /\ \A x \in (i + 1) .. (b - 1) : ~isKey(x)

\* C12: hybrid marshaling is deterministic: stores that hold the same mapping
\* render byte-identical output whatever order their maps yield the keys in,
\* with the keys in lexicographic order and one key-value pair per line;
\* rendering unchanged data twice gives identical bytes.
C12_HybridDeterministic ==
    (rLast.op = "Marshal" /\ rMethod = Hybrid /\ ~rLast.err)
        => /\ rLast.first = rLast.again
           /\ KeysAscending(rLast.first)
           /\ OnePairPerLine(rLast.first)
           /\ {k.s : k \in {KeysOf(rLast.first)[i] : i \in 1 .. Len(KeysOf(rLast.first))}}
                  = DOMAIN rData

\* Two renderings of a two-record store in hybrid mode whose ranges yielded the
\* keys in different orders, one of them not the sorted one.
C12_Witness ==
    /\ rLast.op = "Marshal" /\ rMethod = Hybrid /\ ~rLast.err
    /\ Cardinality(DOMAIN rData) = 2
    /\ rLast.ranged # rLast.rangedAgain
    /\ rLast.ranged # SortStrings(rLast.ranged)

(***************************************************************************)
(* Path entries and their validation (pathspec).                           *)
(***************************************************************************)
\* BaseDirType.
Config == 0
Data == 1
Cache == 2
Runtime == 3
Temp == 4
\* A BaseDirType no constant names.
UnknownBaseDir == 5

\* PathType.
FileType == 0
DirectoryType == 1
SymlinkType == 2

\* PathCategory.
CategoryConfig == 0
CategoryData == 1
CategoryCache == 2
CategoryRuntime == 3
CategoryTemp == 4
\* A PathCategory no constant names (the tests use PathCategory(99)).
UnknownCategory == 99

\* ValidSubcategories.
ValidSubcategories ==
    [c \in {CategoryConfig, CategoryData, CategoryCache, CategoryRuntime, CategoryTemp} |->
        CASE c = CategoryConfig -> {"", "templates", "plugins"}
          [] c = CategoryData -> {"database", "storage", "state", "resources", "processes",
                                  "projects", "backups", "uploads", "exports"}
          [] c = CategoryCache -> {"cache", "thumbnails"}
          [] c = CategoryRuntime -> {"logs", "stats"}
          [] OTHER -> {"locks", "sockets", "processing"}]

isValid(c, s) == IF c \in DOMAIN ValidSubcategories THEN s \in ValidSubcategories[c] ELSE FALSE

\* The Path whose fields all have their zero value.
ZeroPath ==
    [AppName |-> "", Name |-> "", BaseDir |-> Config, Groupcategory |-> "",
     Subcategory |-> "", PathType |-> FileType, Category |-> CategoryConfig,
     DefaultPerm |-> 0, IsMandatory |-> FALSE, IsVersioned |-> FALSE,
     MaxSize |-> 0, Format |-> "", MaxChildren |-> 0, HasSubdirs |-> FALSE,
     RetentionDays |-> 0, CleanupAge |-> 0]

\* validate(p): "nil" or the first error, in the order of the checks.
validate(p) ==
    CASE p.AppName = "" -> "AppName cannot be empty"
      [] p.Name = "" -> "Name cannot be empty"
      [] p.PathType = FileType /\ p.MaxChildren > 0 -> "MaxChildren cannot be set for file type"
      [] p.PathType = FileType /\ p.HasSubdirs -> "HasSubdirs cannot be true for file type"
      [] p.PathType = DirectoryType /\ p.MaxSize > 0 -> "MaxSize cannot be set for directory type"
      [] p.PathType = DirectoryType /\ p.Format # "" -> "Format cannot be set for directory type"
      [] p.RetentionDays > 0 /\ p.CleanupAge > 0 /\ p.CleanupAge > p.RetentionDays
            -> "CleanupAge cannot be greater than RetentionDays"
      [] p.IsVersioned /\ p.Category # CategoryConfig
            -> "Versioning is only applicable for config files"
      [] p.Subcategory # "" /\ ~isValid(p.Category, p.Subcategory) -> "subcategory is not valid"
      [] p.DefaultPerm = 0 -> "permissions 0000 are invalid"
      [] OTHER -> "nil"

IdlePV == pe = ZeroPath /\ peErr = "idle"

\* validate is given an entry: each field from a few values.
InitPV ==
    /\ pe \in
        {[ZeroPath EXCEPT !.AppName = a, !.Name = n, !.PathType = t, !.Category = c,
                          !.Subcategory = sc, !.DefaultPerm = dp, !.IsVersioned = ver,
                          !.MaxSize = ms, !.Format = f, !.MaxChildren = mc, !.HasSubdirs = hs,
                          !.RetentionDays = rt, !.CleanupAge = cl] :
            a \in {"", "app"}, n \in {"", "n"},
            t \in {FileType, DirectoryType, SymlinkType},
            c \in {CategoryConfig, CategoryRuntime, UnknownCategory},
            sc \in {"", "templates", "logs"}, dp \in {0, 420}, ver \in BOOLEAN,
            ms \in 0 .. MaxCount, f \in {"", "json"}, mc \in 0 .. MaxCount, hs \in BOOLEAN,
            rt \in 0 .. MaxDays, cl \in 0 .. MaxDays}
    /\ peErr = "unchecked"

\* err := validate(p)
PV_Validate ==
    /\ peErr = "unchecked"
    /\ peErr' = validate(pe)
    /\ pe' = pe
    /\ UNCHANGED nonPvVars

NextPV == PV_Validate

\* The conditions an entry has to satisfy.
SatisfiesInvariants(e) ==
    /\ e.AppName # "" /\ e.Name # ""
    /\ e.DefaultPerm # 0
    /\ (e.MaxChildren > 0 \/ e.HasSubdirs) => e.PathType = DirectoryType
    /\ (e.MaxSize > 0 \/ e.Format # "") => e.PathType = FileType
    /\ (e.RetentionDays > 0 /\ e.CleanupAge > 0) => e.CleanupAge <= e.RetentionDays
    /\ e.IsVersioned => e.Category = CategoryConfig
    /\ e.Subcategory # ""
        => (e.Category \in DOMAIN ValidSubcategories
            /\ e.Subcategory \in ValidSubcategories[e.Category])

\* C15: validate(e) returns no error exactly when e has a non-empty
\* application name and name, non-zero permission bits, a child-count limit
\* or the has-subdirectories flag only as a directory, a size limit or a
\* format only as a file, a cleanup age not above the retention when both are
\* set, the versioned flag only in category config, and a subcategory that is
\* empty or allowed for its category.
C15_ValidateIffInvariants ==
    peErr \notin {"idle", "unchecked"} => ((peErr = "nil") <=> SatisfiesInvariants(pe))

(***************************************************************************)
(* Layouts: NewLayout, Import, GetAllPaths (pathspec).                     *)
(***************************************************************************)
\* The sequences over S of length at most n.
SeqsUpTo(S, n) == UNION {[1 .. k -> S] : k \in 0 .. n}

\* &Layout{AppName: appname, ConfigPaths: []Path{}, ...}
EmptyLayout(appname) ==
    [AppName |-> appname, ConfigPaths |-> <<>>, DataPaths |-> <<>>, CachePaths |-> <<>>,
     RuntimePaths |-> <<>>, TempPaths |-> <<>>]

NoLayout == [ok |-> FALSE, l |-> EmptyLayout("")]

\* Layout.GetAllPaths
GetAllPaths(l) ==
    l.ConfigPaths \o l.DataPaths \o l.CachePaths \o l.RuntimePaths \o l.TempPaths

\* if path.AppName == "" { path.AppName = appname }
Stamped(path, appname) == IF path.AppName = "" THEN [path EXCEPT !.AppName = appname] ELSE path

\* switch path.BaseDir: the entry is appended to the bucket of its kind; a
\* kind no case names is appended nowhere.
Bucketed(l, path) ==
    CASE path.BaseDir = Config -> [l EXCEPT !.ConfigPaths = Append(@, path)]
      [] path.BaseDir = Data -> [l EXCEPT !.DataPaths = Append(@, path)]
      [] path.BaseDir = Cache -> [l EXCEPT !.CachePaths = Append(@, path)]
      [] path.BaseDir = Runtime -> [l EXCEPT !.RuntimePaths = Append(@, path)]
      [] path.BaseDir = Temp -> [l EXCEPT !.TempPaths = Append(@, path)]
      [] OTHER -> l

\* What a constructor returns: the Layout or the error, the entry the error
\* names, and the caller's slice as the call leaves it.
Built(l, paths) == [ok |-> TRUE, l |-> l, err |-> "nil", errAt |-> 0, errName |-> "", paths |-> paths]
Refused(err, at, name, paths) ==
    [ok |-> FALSE, l |-> EmptyLayout(""), err |-> err, errAt |-> at, errName |-> name,
     paths |-> paths]

\* NewLayout, from entry i on.
RECURSIVE NewLayoutFrom(_, _, _, _)
NewLayoutFrom(appname, paths, i, l) ==
    IF i > Len(paths) THEN Built(l, paths)
    ELSE LET path == Stamped(paths[i], appname)
             written == [paths EXCEPT ![i] = path]
         IN  IF validate(path) # "nil"
             THEN Refused("validation failed", i, path.Name, written)
             ELSE NewLayoutFrom(appname, written, i + 1, Bucketed(l, path))

NewLayout(appname, paths) == NewLayoutFrom(appname, paths, 1, EmptyLayout(appname))

\* The file Import is given: missing, not a JSON document of a Layout, or the
\* document of a Layout.
NoManifest == [kind |-> "missing", l |-> EmptyLayout("")]
Malformed == [kind |-> "malformed", l |-> EmptyLayout("")]
ManifestOf(l) == [kind |-> "manifest", l |-> l]

\* Import's loop over layout.GetAllPaths(), from entry i on: the AppName is
\* set on the loop's copy of the entry, the Layout keeps the entry as decoded.
RECURSIVE ImportFrom(_, _, _)
ImportFrom(l, allPaths, i) ==
    IF i > Len(allPaths) THEN Built(l, allPaths)
    ELSE LET path == Stamped(allPaths[i], l.AppName)
         IN  IF validate(path) # "nil"
             THEN Refused("validation failed", i, path.Name, allPaths)
             ELSE ImportFrom(l, allPaths, i + 1)

\* An Import that validates the entries as decoded.
Import_Unstamped(manifest) ==
    CASE manifest.kind = "missing" -> Refused("failed to open manifest", 0, "", <<>>)
      [] manifest.kind = "malformed" -> Refused("failed to decode JSON", 0, "", <<>>)
      [] OTHER -> LET r == ImportFrom([manifest.l EXCEPT !.AppName = ""],
                                      GetAllPaths(manifest.l), 1)
                  IN  IF r.ok THEN Built(manifest.l, r.paths) ELSE r

Import(manifest) ==
    CASE manifest.kind = "missing" -> Refused("failed to open manifest", 0, "", <<>>)
      [] manifest.kind = "malformed" -> Refused("failed to decode JSON", 0, "", <<>>)
      [] OTHER -> ImportFrom(manifest.l, GetAllPaths(manifest.l), 1)

\* The entries the constructors are given.
LayoutEntries ==
    {[ZeroPath EXCEPT !.AppName = a, !.Name = n, !.BaseDir = b, !.DefaultPerm = dp] :
        a \in {"", "app"}, n \in {"n", "m"}, b \in {Config, Data, UnknownBaseDir},
        dp \in {0, 420}}

\* The first k elements of a list (all of it when it is shorter) and the rest.
FirstOf(ps, k) == [i \in 1 .. (IF k < Len(ps) THEN k ELSE Len(ps)) |-> ps[i]]
RestOf(ps, k) == [i \in 1 .. (IF k < Len(ps) THEN Len(ps) - k ELSE 0) |-> ps[i + k]]

\* A manifest of the application a: the list ps split over two buckets after
\* its k-th entry.
SplitManifest(a, ps, k) ==
    ManifestOf([EmptyLayout(a) EXCEPT !.ConfigPaths = FirstOf(ps, k),
                                      !.TempPaths = RestOf(ps, k)])

\* The calls of the constructors.
NewLayoutCall(a, ps) == [op |-> "NewLayout", appname |-> a, paths |-> ps, file |-> NoManifest]
ImportCall(f) == [op |-> "Import", appname |-> "", paths |-> <<>>, file |-> f]

NoInput == [op |-> "none", appname |-> "", paths |-> <<>>, file |-> NoManifest]

\* The last call: its name, its error, the entry the error names, the
\* caller's slice after a NewLayout, the per-entry errors of a Generate or the
\* messages of an Assess, the entry at which the operating system refused a
\* Generate, the directory tree before the call, and the call before it.
NoLayoutCall ==
    [op |-> "none", err |-> "nil", errAt |-> 0, errName |-> "", paths |-> <<>>,
     msgs |-> <<>>, failAt |-> 0, preDisk |-> <<>>, prev |-> [op |-> "none", err |-> "nil"]]

IdleLY ==
    /\ lIn = NoInput /\ layout = NoLayout /\ lLast = NoLayoutCall
    /\ disk = <<>> /\ umask = 0

\* The constructors are called with a name and a list of LayoutEntries, or
\* on a manifest file: missing, malformed, or holding such a list.
InitLY ==
    /\ \/ \E a \in {"", "app"}, ps \in SeqsUpTo(LayoutEntries, MaxEntries) :
            lIn = NewLayoutCall(a, ps)
       \/ \E f \in {NoManifest, Malformed} : lIn = ImportCall(f)
       \/ \E a \in {"", "app"}, ps \in SeqsUpTo(LayoutEntries, MaxEntries),
              k \in 0 .. MaxEntries :
            lIn = ImportCall(SplitManifest(a, ps, k))
    /\ layout = NoLayout /\ lLast = NoLayoutCall
    /\ disk = <<>> /\ umask = 0

\* The constructor has returned r.
Constructed(op, r) ==
    /\ layout' = [ok |-> r.ok, l |-> r.l]
    /\ lLast' = [NoLayoutCall EXCEPT !.op = op, !.err = r.err, !.errAt = r.errAt,
                                     !.errName = r.errName, !.paths = r.paths,
                                     !.preDisk = disk]

\* layout, err := NewLayout(appname, paths)
LY_NewLayout ==
    /\ lIn.op = "NewLayout" /\ lLast.op = "none"
    /\ Constructed("NewLayout", NewLayout(lIn.appname, lIn.paths))
    /\ UNCHANGED <<lIn, disk, umask>>
    /\ UNCHANGED nonLyVars

\* layout, err := Import(filePath)
LY_Import ==
    /\ lIn.op = "Import" /\ lLast.op = "none"
    /\ Constructed("Import", Import(lIn.file))
    /\ UNCHANGED <<lIn, disk, umask>>
    /\ UNCHANGED nonLyVars

NextLY == LY_NewLayout \/ LY_Import

\* The entries as they are once an empty AppName is replaced.
AllStamped(paths, appname) == [i \in 1 .. Len(paths) |-> Stamped(paths[i], appname)]
\* The index of the first entry that fails validation, 0 when none fails.
FirstInvalid(paths) ==
    IF \E i \in 1 .. Len(paths) : validate(paths[i]) # "nil"
    THEN CHOOSE i \in 1 .. Len(paths) :
            /\ validate(paths[i]) # "nil"
            /\ \A j \in 1 .. (i - 1) : validate(paths[j]) = "nil"
    ELSE 0
\* The entries of one base-directory kind, in the order of the list.
OfKind(paths, kind) == LET Is(e) == e.BaseDir = kind IN SelectSeq(paths, Is)

\* C16: NewLayout(appName, entries): when every entry is valid once an empty
\* AppName is replaced by appName, the Layout holds every entry once, with a
\* non-empty AppName, in the bucket of its base-directory kind and in input
\* order inside the bucket; otherwise there is no Layout and the error names
\* the first invalid entry.
C16_NewLayoutBuckets ==
    lLast.op = "NewLayout"
        => LET given == AllStamped(lIn.paths, lIn.appname)
               bad == FirstInvalid(given)
           IN  IF bad = 0
               THEN /\ layout.ok /\ lLast.err = "nil"
                    /\ Len(GetAllPaths(layout.l)) = Len(given)
                    /\ \A i \in 1 .. Len(GetAllPaths(layout.l)) :
                            GetAllPaths(layout.l)[i].AppName # ""
                    /\ layout.l.ConfigPaths = OfKind(given, Config)
                    /\ layout.l.DataPaths = OfKind(given, Data)
                    /\ layout.l.CachePaths = OfKind(given, Cache)
                    /\ layout.l.RuntimePaths = OfKind(given, Runtime)
                    /\ layout.l.TempPaths = OfKind(given, Temp)
               ELSE /\ ~layout.ok /\ lLast.err # "nil"
                    /\ lLast.errAt = bad /\ lLast.errName = given[bad].Name

BaseSegment(baseDir) ==
    CASE baseDir = Config -> "config"
      [] baseDir = Data -> "data"
      [] baseDir = Cache -> "cache"
      [] baseDir = Runtime -> "state"
      [] baseDir = Temp -> "temp"
      [] OTHER -> "data"

\* filepath.Join drops empty elements.
Segment(x) == IF x = "" THEN <<>> ELSE <<x>>

\* A path string: its segments and whether it ends with a separator; the
\* empty string has no segment.
EmptyString == [segs |-> <<>>, slash |-> FALSE]

\* filepath.Join(path, elems...): the elements that are not empty, no
\* separator at the end.
Join(segs, elems) == LET NotEmpty(x) == x # "" IN segs \o SelectSeq(elems, NotEmpty)

\* strings.TrimSuffix(path, name) of a path that does not end with a
\* separator: without its last segment when that is name, the separator
\* before it stays.
TrimSuffixName(segs, name) ==
    IF segs # <<>> /\ segs[Len(segs)] = name
    THEN [segs |-> SubSeq(segs, 1, Len(segs) - 1), slash |-> TRUE]
    ELSE [segs |-> segs, slash |-> FALSE]

\* pathConfig and the options that set its fields.
ZeroConfig ==
    [programName |-> "", projectGroup |-> "", baseDir |-> "", subDir |-> <<>>,
     fileName |-> ""]
WithProgramName(name) == [set |-> "programName", to |-> name]
WithProjectGroup(group) == [set |-> "projectGroup", to |-> group]
WithBaseDir(dirType) == [set |-> "baseDir", to |-> dirType]
WithSubDir(subDir) == [set |-> "subDir", to |-> subDir]
WithFileName(fileName) == [set |-> "fileName", to |-> fileName]

\* for _, opt := range opts { opt(config) }
RECURSIVE ApplyPathOptions(_, _, _)
ApplyPathOptions(config, opts, i) ==
    IF i > Len(opts) THEN config
    ELSE ApplyPathOptions([config EXCEPT ![opts[i].set] = opts[i].to], opts, i + 1)

\* getBaseDir(dirType): the home directory of the kind, one segment, or the
\* empty string.
getBaseDir(dirType) ==
    IF dirType \in {"config", "data", "cache", "state", "runtime", "temp"}
    THEN <<dirType>> ELSE <<>>

\* A Location that ends a directory path like a file path, with no
\* separator.
Location_NoSeparator(opts) ==
    LET config == ApplyPathOptions(ZeroConfig, opts, 1)
    IN  IF config.programName = "" \/ getBaseDir(config.baseDir) = <<>> THEN EmptyString
        ELSE [segs |-> Join(getBaseDir(config.baseDir),
                            <<config.projectGroup, config.programName>>
                                \o config.subDir \o <<config.fileName>>),
              slash |-> FALSE]

\* xdg.Location(opts...)
Location(opts) ==
    LET config == ApplyPathOptions(ZeroConfig, opts, 1)
        basePath == getBaseDir(config.baseDir)
    IN  IF config.programName = "" THEN EmptyString
        ELSE IF basePath = <<>> THEN EmptyString
        ELSE LET grouped == IF config.projectGroup # ""
                            THEN Join(basePath, <<config.projectGroup>>) ELSE basePath
                 named == Join(grouped, <<config.programName>>)
                 path == IF Len(config.subDir) # 0 THEN Join(named, config.subDir)
                         ELSE named
             IN  IF config.fileName = ""
                 THEN TrimSuffixName(Join(path, <<"tmpName">>), "tmpName")
                 ELSE [segs |-> Join(path, <<config.fileName>>), slash |-> FALSE]

\* xdgAdapter.toXDGOptions() of newXDGAdapter(path)
toXDGOptions(path) ==
    <<WithBaseDir(BaseSegment(path.BaseDir))>>
    \o (IF path.Groupcategory # "" THEN <<WithProjectGroup(path.Groupcategory)>> ELSE <<>>)
    \o (IF path.AppName # "" THEN <<WithProgramName(path.AppName)>> ELSE <<>>)
    \o (IF path.Subcategory # "" THEN <<WithSubDir(<<path.Subcategory>>)>> ELSE <<>>)
    \o (IF path.PathType = FileType THEN <<WithFileName(path.Name)>>
        ELSE IF path.Subcategory # ""
             THEN <<WithSubDir(<<path.Subcategory, path.Name>>)>>
             ELSE <<WithSubDir(<<path.Name>>)>>)

\* BuildPath(path): [segs, slash], the segments of the path and whether it
\* ends with a separator; segs is empty for the empty string.
BuildPath(path) == Location(toXDGOptions(path))

\* What a path of the disk holds.
FileObj(perm, size) == [kind |-> "file", perm |-> perm, size |-> size]
DirObj(perm) == [kind |-> "dir", perm |-> perm, size |-> 0]
EmptyDisk == <<>>

\* The home directories exist; below them a path exists when the disk has it.
IsDirAt(d, segs) == Len(segs) <= 1 \/ (segs \in DOMAIN d /\ d[segs].kind = "dir")
Exists(d, segs) == Len(segs) <= 1 \/ segs \in DOMAIN d
Prefix(segs, k) == [i \in 1 .. k |-> segs[i]]

\* a &^ m on permission bits.
RECURSIVE AndNot(_, _)
AndNot(a, m) ==
    IF a = 0 THEN 0
    ELSE (IF a % 2 = 1 /\ m % 2 = 0 THEN 1 ELSE 0) + 2 * AndNot(a \div 2, m \div 2)

\* os.Stat(fullPath): "nil" with the object, "notexist" for ENOENT, "other"
\* for ENOTDIR (a file on the way, or a file where the path ends with a
\* separator).
Stat(d, fp) ==
    LET segs == fp.segs
        none == FileObj(0, 0)
    IN  IF segs = <<>> THEN [err |-> "notexist", obj |-> none]
        ELSE IF \E k \in 1 .. (Len(segs) - 1) :
                    /\ Exists(d, Prefix(segs, k)) /\ ~IsDirAt(d, Prefix(segs, k))
                    /\ \A j \in 1 .. (k - 1) : IsDirAt(d, Prefix(segs, j))
             THEN [err |-> "other", obj |-> none]
        ELSE IF ~Exists(d, segs) \/ \E k \in 1 .. (Len(segs) - 1) : ~Exists(d, Prefix(segs, k))
             THEN [err |-> "notexist", obj |-> none]
        ELSE IF Len(segs) <= 1 THEN [err |-> "nil", obj |-> DirObj(493)]
        ELSE IF fp.slash /\ d[segs].kind # "dir" THEN [err |-> "other", obj |-> none]
        ELSE [err |-> "nil", obj |-> d[segs]]

\* os.MkdirAll(segs, perm) under the mask um, from the k-th segment on:
\* [disk, err].  Every directory it makes gets perm &^ um.
RECURSIVE MkdirAllFrom(_, _, _, _, _)
MkdirAllFrom(d, segs, perm, um, k) ==
    IF k > Len(segs) THEN [disk |-> d, err |-> FALSE]
    ELSE LET node == Prefix(segs, k)
         IN  IF IsDirAt(d, node) THEN MkdirAllFrom(d, segs, perm, um, k + 1)
             ELSE IF Exists(d, node) THEN [disk |-> d, err |-> TRUE]
             ELSE MkdirAllFrom((node :> DirObj(AndNot(perm, um))) @@ d, segs, perm, um, k + 1)

\* One entry of a Generate that makes its file or directory exclusively
\* (os.Mkdir, O_EXCL): what is already there is an error.
GenerateEntry_Exclusive(d, path, um, refused) ==
    LET fp == BuildPath(path)
    IN  IF Len(fp.segs) > 1 /\ Exists(d, fp.segs) THEN [disk |-> d, err |-> "exists"]
        ELSE IF path.PathType = FileType /\ Len(fp.segs) > 1
        THEN [disk |-> (fp.segs :> FileObj(AndNot(path.DefaultPerm, um), 0))
                            @@ MkdirAllFrom(d, Prefix(fp.segs, Len(fp.segs) - 1), 493, um, 1).disk,
              err |-> "nil"]
        ELSE [disk |-> MkdirAllFrom(d, fp.segs, path.DefaultPerm, um, 1).disk, err |-> "nil"]

\* One entry of Generate: [disk, err], err the per-entry error or "nil".
\* refused: the operating system refuses what this entry creates.
GenerateEntry(d, path, um, refused) ==
    LET fp == BuildPath(path)
    IN  CASE path.PathType = DirectoryType ->
                LET m == MkdirAllFrom(d, fp.segs, path.DefaultPerm, um, 1)
                IN  IF refused /\ ~IsDirAt(d, fp.segs) THEN [disk |-> d, err |-> "directory"]
                    ELSE [disk |-> m.disk, err |-> IF m.err THEN "directory" ELSE "nil"]
          [] path.PathType = FileType ->
                LET m == MkdirAllFrom(d, Prefix(fp.segs, Len(fp.segs) - 1), 493, um, 1)
                IN  IF m.err THEN [disk |-> m.disk, err |-> "parent directory"]
                    ELSE IF Stat(m.disk, fp).err = "notexist"
                         THEN IF refused THEN [disk |-> m.disk, err |-> "file"]
                              ELSE [disk |-> (fp.segs :> FileObj(AndNot(path.DefaultPerm, um), 0))
                                                @@ m.disk,
                                    err |-> "nil"]
                    ELSE [disk |-> m.disk, err |-> "nil"]
          [] path.PathType = SymlinkType -> [disk |-> d, err |-> "symlink"]
          [] OTHER -> [disk |-> d, err |-> "nil"]

\* Generate's loop from entry i on: [disk, err, errors, errAt].  An entry that
\* fails validation ends the call at once; the errors collected so far are
\* not returned.
RECURSIVE GenerateFrom(_, _, _, _, _, _)
GenerateFrom(allPaths, i, d, errors, um, failAt) ==
    IF i > Len(allPaths)
    THEN [disk |-> d, err |-> IF errors = <<>> THEN "nil" ELSE "generation errors",
          errors |-> errors, errAt |-> 0]
    ELSE IF validate(allPaths[i]) # "nil"
         THEN [disk |-> d, err |-> "invalid path", errors |-> <<>>, errAt |-> i]
    ELSE LET g == GenerateEntry(d, allPaths[i], um, failAt = i)
         IN  GenerateFrom(allPaths, i + 1, g.disk,
                          IF g.err = "nil" THEN errors
                          ELSE Append(errors, [at |-> i, kind |-> g.err]),
                          um, failAt)

\* Layout.Generate
Generate(l, d, um, failAt) == GenerateFrom(GetAllPaths(l), 1, d, <<>>, um, failAt)

\* len(entries) of os.ReadDir(segs).
Children(d, segs) ==
    Cardinality({n \in DOMAIN d : Len(n) = Len(segs) + 1 /\ Prefix(n, Len(segs)) = segs})

\* os.ReadDir(segs) fails on a directory its owner may not read (the process
\* is the owner and has no privilege).
ReadDirFails(d, segs) == (d[segs].perm \div 256) % 2 = 0

\* An AssessEntry that goes on to the permission checks after a type
\* mismatch.
AssessEntry_NoContinue(d, path, i) ==
    LET st == Stat(d, BuildPath(path))
        info == st.obj
        Msg(kind) == <<[at |-> i, kind |-> kind]>>
    IN  IF st.err = "notexist"
        THEN IF path.IsMandatory THEN Msg("mandatory path does not exist") ELSE <<>>
        ELSE IF st.err # "nil" THEN Msg("cannot access path")
        ELSE (IF \/ (path.PathType = FileType /\ info.kind = "dir")
                 \/ (path.PathType = DirectoryType /\ info.kind # "dir")
              THEN Msg("path type mismatch") ELSE <<>>)
             \o (IF info.perm = 0 THEN Msg("invalid permissions 0000") ELSE <<>>)
             \o (IF info.perm # path.DefaultPerm THEN Msg("permissions mismatch") ELSE <<>>)

\* The messages Assess appends for one entry, in order.
AssessEntry(d, path, i) ==
    LET st == Stat(d, BuildPath(path))
        info == st.obj
        Msg(kind) == <<[at |-> i, kind |-> kind]>>
    IN  IF st.err = "notexist"
        THEN IF path.IsMandatory THEN Msg("mandatory path does not exist") ELSE <<>>
        ELSE IF st.err # "nil" THEN Msg("cannot access path")
        ELSE IF \/ (path.PathType = FileType /\ info.kind = "dir")
                \/ (path.PathType = DirectoryType /\ info.kind # "dir")
             THEN Msg("path type mismatch")
        ELSE (IF info.perm = 0 THEN Msg("invalid permissions 0000") ELSE <<>>)
             \o (IF info.perm # path.DefaultPerm THEN Msg("permissions mismatch") ELSE <<>>)
             \o (IF path.PathType = FileType /\ path.MaxSize > 0 /\ info.size > path.MaxSize
                 THEN Msg("file size exceeds limit") ELSE <<>>)
             \o (IF path.PathType = DirectoryType /\ path.MaxChildren > 0
                 THEN IF ReadDirFails(d, BuildPath(path).segs)
                      THEN Msg("cannot read directory")
                      ELSE IF Children(d, BuildPath(path).segs) > path.MaxChildren
                           THEN Msg("directory children count exceeded") ELSE <<>>
                 ELSE <<>>)

RECURSIVE AssessFrom(_, _, _)
AssessFrom(allPaths, i, d) ==
    IF i > Len(allPaths) THEN <<>>
    ELSE AssessEntry(d, allPaths[i], i) \o AssessFrom(allPaths, i + 1, d)

\* An Assess that returns at the first entry that has a message.
Assess_StopAtFirst(l, d) ==
    LET all == AssessFrom(GetAllPaths(l), 1, d)
        IsFirst(m) == m.at = all[1].at
        assessmentErrors == IF all = <<>> THEN <<>> ELSE SelectSeq(all, IsFirst)
    IN  [msgs |-> assessmentErrors,
         err |-> IF Len(assessmentErrors) > 0 THEN "assessment errors" ELSE "nil"]

\* Layout.Assess: [msgs, err].
Assess(l, d) ==
    LET assessmentErrors == AssessFrom(GetAllPaths(l), 1, d)
    IN  [msgs |-> assessmentErrors,
         err |-> IF Len(assessmentErrors) > 0 THEN "assessment errors" ELSE "nil"]

\* The entries of the layouts that are generated and assessed: a mandatory
\* configuration file with an AppName of its own (permissions 0666) and one
\* without (0644, the entry NewLayout stamps), a data directory, a symlink,
\* and a file with permissions 0000.
GenEntries ==
    {[ZeroPath EXCEPT !.AppName = "app", !.Name = "n", !.DefaultPerm = 438,
                      !.IsMandatory = TRUE]}
    \cup {[ZeroPath EXCEPT !.Name = "n", !.DefaultPerm = 420, !.IsMandatory = TRUE],
          [ZeroPath EXCEPT !.AppName = "app", !.Name = "d", !.BaseDir = Data,
                           !.PathType = DirectoryType, !.Category = CategoryData,
                           !.DefaultPerm = 493],
          [ZeroPath EXCEPT !.AppName = "app", !.Name = "s", !.BaseDir = Cache,
                           !.PathType = SymlinkType, !.Category = CategoryCache,
                           !.DefaultPerm = 420],
          [ZeroPath EXCEPT !.AppName = "app", !.Name = "x", !.BaseDir = Data,
                           !.Category = CategoryData, !.DefaultPerm = 0]}

\* The calls that make a Layout of them: NewLayout, Import, and the struct
\* literal &Layout{...}.
GenCalls ==
    {[op |-> o, appname |-> "app", paths |-> ps,
      file |-> ManifestOf([EmptyLayout("app") EXCEPT !.ConfigPaths = ps])] :
        o \in {"NewLayout", "Import", "Literal"}, ps \in SeqsUpTo(GenEntries, MaxEntries)}

\* The disk a program starts on: nothing of the application, or one object
\* of it: a file or a directory where an entry points, or a file where the
\* application's configuration directory should be.
Planted(segs, obj) ==
    (segs :> obj) @@ [n \in {Prefix(segs, k) : k \in 2 .. (Len(segs) - 1)} |-> DirObj(493)]
InitialDisks ==
    {EmptyDisk}
    \cup {Planted(segs, obj) :
            segs \in {<<"config", "app", "n">>, <<"data", "app", "d">>},
            obj \in {FileObj(384, 1), DirObj(448)}}
    \cup {Planted(<<"config", "app">>, FileObj(420, 1))}

\* The masks a process runs under: none and 022.
Umasks == {0, 18}

InitGA ==
    /\ lIn \in GenCalls
    /\ layout = NoLayout /\ lLast = NoLayoutCall
    /\ disk \in InitialDisks /\ umask \in Umasks

\* layout := &Layout{AppName: ..., ConfigPaths: ...}
GA_Literal ==
    /\ lIn.op = "Literal" /\ lLast.op = "none"
    /\ Constructed("Literal", Built(lIn.file.l, lIn.paths))
    /\ UNCHANGED <<lIn, disk, umask>>
    /\ UNCHANGED nonLyVars

\* err := layout.Generate()
GA_Generate ==
    /\ layout.ok
    /\ \E failAt \in 0 .. Len(GetAllPaths(layout.l)) :
        LET g == Generate(layout.l, disk, umask, failAt)
        IN  /\ disk' = g.disk
            /\ lLast' = [NoLayoutCall EXCEPT !.op = "Generate", !.err = g.err,
                                             !.errAt = g.errAt, !.msgs = g.errors,
                                             !.failAt = failAt, !.preDisk = disk,
                                             !.prev = [op |-> lLast.op, err |-> lLast.err]]
    /\ UNCHANGED <<lIn, layout, umask>>
    /\ UNCHANGED nonLyVars

\* msgs, err := layout.Assess()
GA_Assess ==
    /\ layout.ok
    /\ LET a == Assess(layout.l, disk)
       IN  lLast' = [NoLayoutCall EXCEPT !.op = "Assess", !.err = a.err, !.msgs = a.msgs,
                                         !.preDisk = disk,
                                         !.prev = [op |-> lLast.op, err |-> lLast.err]]
    /\ UNCHANGED <<lIn, layout, disk, umask>>
    /\ UNCHANGED nonLyVars

NextGA == LY_NewLayout \/ LY_Import \/ GA_Literal \/ GA_Generate \/ GA_Assess

\* The entries a Generate reported: those of its per-entry errors and the
\* one its error names.
Reported == {lLast.msgs[k].at : k \in 1 .. Len(lLast.msgs)} \cup ({lLast.errAt} \ {0})

\* The entry fails whatever the disk holds: it is invalid or a symlink.
FailsAlways(path) == validate(path) # "nil" \/ path.PathType = SymlinkType

\* C18: Generate processes every entry even when an earlier one fails: every
\* valid file or directory entry for which no error is reported exists
\* afterwards, the returned error reports every entry that is invalid or a
\* symlink, and Generate returns nil exactly when no entry is reported.
C18_GenerateProcessesEveryEntry ==
    lLast.op = "Generate"
        => LET all == GetAllPaths(layout.l)
           IN  /\ \A i \in 1 .. Len(all) :
                    (/\ validate(all[i]) = "nil"
                     /\ all[i].PathType \in {FileType, DirectoryType}
                     /\ i \notin Reported)
                        => Stat(disk, BuildPath(all[i])).err = "nil"
               /\ \A i \in 1 .. Len(all) : FailsAlways(all[i]) => i \in Reported
               /\ (lLast.err = "nil") <=> (Reported = {})

\* Every path the disk had before the call is there as it was.
KeptAsItWas ==
    \A n \in DOMAIN lLast.preDisk : n \in DOMAIN disk /\ disk[n] = lLast.preDisk[n]

\* C19 as written: a Generate that follows a Generate on the same Layout
\* reports no errors and leaves every existing file and directory as it was.
C19_SecondGenerateNoErrors ==
    (lLast.op = "Generate" /\ lLast.prev.op = "Generate")
        => (lLast.err = "nil" /\ KeptAsItWas)

\* C19, amended: a Generate that follows a Generate leaves every existing
\* file and directory as it was; when the first returned nil the second
\* returns nil and changes nothing at all.
C19_SecondGenerateChangesNothing ==
    (lLast.op = "Generate" /\ lLast.prev.op = "Generate")
        => /\ KeptAsItWas
           /\ lLast.prev.err = "nil" => (lLast.err = "nil" /\ disk = lLast.preDisk)

\* A second Generate, after a first that returned nil, on a Layout of a file
\* and a directory where the file was there before the first call.
C19_Witness ==
    /\ lLast.op = "Generate" /\ lLast.prev.op = "Generate" /\ lLast.prev.err = "nil"
    /\ Len(GetAllPaths(layout.l)) = MaxEntries
    /\ \E i, j \in 1 .. Len(GetAllPaths(layout.l)) :
            /\ GetAllPaths(layout.l)[i].PathType = FileType
            /\ GetAllPaths(layout.l)[j].PathType = DirectoryType
    /\ <<"config", "app", "n">> \in DOMAIN disk
    /\ disk[<<"config", "app", "n">>] = FileObj(384, 1)
    /\ <<"data", "app", "d">> \in DOMAIN disk

\* The Layout is one valid mandatory configuration file entry.
OneMandatoryConfigFile ==
    /\ layout.ok
    /\ Len(GetAllPaths(layout.l)) = 1
    /\ LET e == GetAllPaths(layout.l)[1]
       IN  /\ e.BaseDir = Config /\ e.PathType = FileType /\ e.IsMandatory
           /\ validate(e) = "nil"

\* C20: for a Layout of one mandatory configuration file entry, an Assess
\* while the file is absent returns exactly one message and an error; after a
\* Generate on that Layout (which found the file absent and returned nil) an
\* Assess returns no message and nil.
C20_AssessBeforeAndAfterGenerate ==
    OneMandatoryConfigFile
        => LET fp == BuildPath(GetAllPaths(layout.l)[1])
           IN  /\ (lLast.op = "Assess" /\ Stat(disk, fp).err = "notexist")
                    => (Len(lLast.msgs) = 1 /\ lLast.err # "nil")
               /\ (/\ lLast.op = "Generate" /\ lLast.err = "nil"
                   /\ Stat(lLast.preDisk, fp).err = "notexist")
                    => Assess(layout.l, disk) = [msgs |-> <<>>, err |-> "nil"]

\* The messages of the last call that are about entry i.
MessagesAt(i) == LET About(m) == m.at = i IN SelectSeq(lLast.msgs, About)

\* C21: Assess never stops at a discrepancy: the list it returns holds, entry
\* by entry and in the order of the entries, the messages of every entry of
\* the Layout, and its error is non-nil exactly when the list is not empty.
C21_AssessReturnsAllMessages ==
    lLast.op = "Assess"
        => LET all == GetAllPaths(layout.l)
           IN  /\ \A i \in 1 .. Len(all) : MessagesAt(i) = AssessEntry(disk, all[i], i)
               /\ \A k \in 1 .. Len(lLast.msgs) : lLast.msgs[k].at \in 1 .. Len(all)
               /\ \A j, k \in 1 .. Len(lLast.msgs) :
                    j < k => lLast.msgs[j].at <= lLast.msgs[k].at
               /\ (lLast.err # "nil") <=> (lLast.msgs # <<>>)

\* An Assess of two entries that has a message about each of them.
C21_Witness ==
    /\ lLast.op = "Assess" /\ lLast.err # "nil"
    /\ Len(GetAllPaths(layout.l)) = MaxEntries
    /\ \A i \in 1 .. MaxEntries : MessagesAt(i) # <<>>

(***************************************************************************)
(* Assess of one entry against what the disk holds at its path: nothing, a *)
(* file of some size, a directory with some children, or a file where the *)
(* entry's parent directory should be.                                     *)
(***************************************************************************)

\* The entries that are assessed: every path type, mandatory or not, with
\* and without a size limit and a children limit.
AssessedEntries ==
    {[ZeroPath EXCEPT !.AppName = "app", !.Name = "n", !.PathType = t,
                      !.IsMandatory = m, !.DefaultPerm = dp, !.MaxSize = ms,
                      !.MaxChildren = mc] :
        t \in {FileType, DirectoryType, SymlinkType}, m \in BOOLEAN, dp \in {420, 493},
        ms \in 0 .. MaxCount, mc \in 0 .. MaxCount}

AssessCalls ==
    {[op |-> "Literal", appname |-> "app", paths |-> <<e>>,
      file |-> ManifestOf([EmptyLayout("app") EXCEPT !.ConfigPaths = <<e>>])] :
        e \in AssessedEntries}

\* The names of the files inside an assessed directory.
ChildNames == <<"c1", "c2", "c3", "c4">>
WithChildren(d, segs, k) ==
    d @@ [n \in {segs \o <<ChildNames[j]>> : j \in 1 .. k} |-> FileObj(420, 0)]

AssessedDisks ==
    LET at == <<"config", "app", "n">>
    IN  {EmptyDisk, Planted(<<"config", "app">>, FileObj(420, 1))}
        \cup {Planted(at, FileObj(p, sz)) : p \in {0, 420, 493}, sz \in 0 .. (MaxCount + 1)}
        \cup {WithChildren(Planted(at, DirObj(p)), at, k) :
                p \in {0, 420, 493}, k \in 0 .. (MaxCount + 1)}

InitAS ==
    /\ lIn \in AssessCalls
    /\ layout = NoLayout /\ lLast = NoLayoutCall
    /\ disk \in AssessedDisks /\ umask = 0

NextAS == GA_Literal \/ GA_Assess

\* What the disk holds where the entry points: the object, or nothing when
\* the path or one of the directories above it is not there.
Nothing == [kind |-> "none", perm |-> 0, size |-> 0]
Found(d, e) ==
    LET segs == BuildPath(e).segs
    IN  IF /\ segs \in DOMAIN d
           /\ \A k \in 2 .. (Len(segs) - 1) : IsDirAt(d, Prefix(segs, k))
        THEN d[segs] ELSE Nothing

\* A file stands on the way to the entry's path.
Blocked(d, e) ==
    LET segs == BuildPath(e).segs
    IN  \E k \in 2 .. (Len(segs) - 1) :
            Prefix(segs, k) \in DOMAIN d /\ d[Prefix(segs, k)].kind = "file"

Crossed(d, e) ==
    \/ (e.PathType = FileType /\ Found(d, e).kind = "dir")
    \/ (e.PathType = DirectoryType /\ Found(d, e).kind = "file")

One(b) == IF b THEN 1 ELSE 0

\* The number of messages the four checks of an existing path of the right
\* type give.
CheckCount(d, e, unreadable) ==
    LET o == Found(d, e)
    IN  One(o.perm = 0) + One(o.perm # e.DefaultPerm)
        + One(e.PathType = FileType /\ e.MaxSize > 0 /\ o.size > e.MaxSize)
        + One(/\ e.PathType = DirectoryType /\ e.MaxChildren > 0
              /\ \/ unreadable
                 \/ Children(d, BuildPath(e).segs) > e.MaxChildren)

\* C22 as stated: per entry, one message if the path is missing and
\* mandatory, none if it is missing and optional; for an existing path one
\* message if a file is expected and a directory found or the reverse, and
\* otherwise one for permission bits 0, one for bits that differ from the
\* default, one for a file above its size limit and one for a directory
\* above its children limit.
C22_MessagesPerEntry ==
    lLast.op = "Assess"
        => \A i \in 1 .. Len(GetAllPaths(layout.l)) :
             LET e == GetAllPaths(layout.l)[i]
             IN  Len(MessagesAt(i)) =
                    IF Found(disk, e) = Nothing THEN One(e.IsMandatory)
                    ELSE IF Crossed(disk, e) THEN 1
                    ELSE CheckCount(disk, e, FALSE)

\* C22, amended: as stated, and besides one message (and nothing else) when
\* a file stands on the way to the path, mandatory or not, one message (and
\* nothing else) when a symlink entry finds a file, and one message for a
\* directory with a children limit that cannot be read (no owner read bit),
\* whatever it holds.
C22_MessagesPerEntryAndAccessErrors ==
    lLast.op = "Assess"
        => \A i \in 1 .. Len(GetAllPaths(layout.l)) :
             LET e == GetAllPaths(layout.l)[i]
                 o == Found(disk, e)
             IN  Len(MessagesAt(i)) =
                    IF Blocked(disk, e) THEN 1
                    ELSE IF o = Nothing THEN One(e.IsMandatory)
                    ELSE IF Crossed(disk, e) THEN 1
                    ELSE IF e.PathType = SymlinkType /\ o.kind = "file" THEN 1
                    ELSE CheckCount(disk, e, (o.perm \div 256) % 2 = 0)

\* An Assess of a file entry whose file has permission bits 0 and is larger
\* than the entry allows: three messages.
C22_Witness ==
    /\ lLast.op = "Assess" /\ Len(GetAllPaths(layout.l)) = 1
    /\ GetAllPaths(layout.l)[1].PathType = FileType
    /\ Found(disk, GetAllPaths(layout.l)[1]).perm = 0
    /\ Len(MessagesAt(1)) = 3

\* C26: every entry of a Layout that Import returned carries a non-empty
\* AppName and passes validation as stored, so a Generate on a freshly
\* imported Layout never fails with the invalid-path error.
C26_ImportedLayoutGenerates ==
    /\ (lLast.op = "Import" /\ layout.ok)
        => \A i \in 1 .. Len(GetAllPaths(layout.l)) :
             /\ GetAllPaths(layout.l)[i].AppName # ""
             /\ validate(GetAllPaths(layout.l)[i]) = "nil"
    /\ (lLast.op = "Generate" /\ lLast.prev.op = "Import" /\ lLast.prev.err = "nil")
        => lLast.err # "invalid path"

(***************************************************************************)
(* Generate and Assess of entries that overlap: a directory of the         *)
(* configuration home, with or without a children limit, and files inside  *)
(* it, on an empty disk and with no mask.                                  *)
(***************************************************************************)
OverlapEntries ==
    {[ZeroPath EXCEPT !.AppName = "app", !.Name = "templates", !.PathType = DirectoryType,
                      !.DefaultPerm = dp, !.MaxChildren = mc] :
        dp \in {448, 493}, mc \in 0 .. MaxCount}
    \cup {[ZeroPath EXCEPT !.AppName = "app", !.Name = n, !.Subcategory = "templates",
                           !.DefaultPerm = 420] : n \in {"n", "m"}}

OverlapCalls ==
    {[op |-> "Literal", appname |-> "app", paths |-> ps,
      file |-> ManifestOf([EmptyLayout("app") EXCEPT !.ConfigPaths = ps])] :
        ps \in SeqsUpTo(OverlapEntries, MaxEntries)}

InitGO ==
    /\ lIn \in OverlapCalls
    /\ layout = NoLayout /\ lLast = NoLayoutCall
    /\ disk = EmptyDisk /\ umask = 0

NextGO == GA_Literal \/ GA_Generate \/ GA_Assess

\* C28: for every Layout, whenever Generate returned nil, the Assess that
\* immediately follows returns no message and a nil error, also when paths
\* overlap (a directory entry that is the parent of a file entry) or a
\* directory carries a children limit.
C28_AssessCleanAfterGenerate ==
    (lLast.op = "Assess" /\ lLast.prev = [op |-> "Generate", err |-> "nil"])
        => (lLast.msgs = <<>> /\ lLast.err = "nil")

(***************************************************************************)
(* Path resolution: one call of xdg.Location with the options that set a   *)
(* pathConfig, or one BuildPath of an entry.                               *)
(***************************************************************************)
MaxSubDirs == 2

\* The kinds Location is given: the six of getBaseDir, none, and one it
\* does not know.
DirTypes == {"", "config", "data", "cache", "state", "runtime", "temp", "bogus"}

LocationConfigs ==
    [programName : {"", "app"}, projectGroup : {"", "g"}, baseDir : DirTypes,
     subDir : SeqsUpTo({"", "s", "t"}, MaxSubDirs), fileName : {"", "f"}]

ResolvedEntries ==
    {[ZeroPath EXCEPT !.AppName = a, !.Name = n, !.BaseDir = b, !.Groupcategory = g,
                      !.Subcategory = sc, !.PathType = t] :
        a \in {"", "app"}, n \in {"", "n"},
        b \in {Config, Data, Cache, Runtime, Temp, UnknownBaseDir}, g \in {"", "g"},
        sc \in {"", "templates"}, t \in {FileType, DirectoryType, SymlinkType}}

NoResolution == [op |-> "none", cfg |-> ZeroConfig, path |-> ZeroPath]
Unresolved == [done |-> FALSE, segs |-> <<>>, slash |-> FALSE]
Resolved(str) == [done |-> TRUE, segs |-> str.segs, slash |-> str.slash]

\* No resolution is going on.
IdleXL == xIn = [op |-> "none"] /\ xOut = Unresolved

InitXL ==
    /\ xIn \in {[NoResolution EXCEPT !.op = "Location", !.cfg = c] : c \in LocationConfigs}
               \cup {[NoResolution EXCEPT !.op = "BuildPath", !.path = e] :
                        e \in ResolvedEntries}
    /\ xOut = Unresolved

\* The options that set every field of the configuration.
OptionsOf(c) ==
    <<WithBaseDir(c.baseDir), WithProjectGroup(c.projectGroup),
      WithProgramName(c.programName), WithSubDir(c.subDir), WithFileName(c.fileName)>>

\* path := xdg.Location(opts...)
XL_Location ==
    /\ xIn.op = "Location" /\ ~xOut.done
    /\ xOut' = Resolved(Location(OptionsOf(xIn.cfg)))
    /\ xIn' = xIn
    /\ UNCHANGED nonXlVars

\* path := BuildPath(entry)
XL_BuildPath ==
    /\ xIn.op = "BuildPath" /\ ~xOut.done
    /\ xOut' = Resolved(BuildPath(xIn.path))
    /\ xIn' = xIn
    /\ UNCHANGED nonXlVars

NextXL == XL_Location \/ XL_BuildPath

\* The names of a list that are not empty, in order.
Named(names) == LET Given(x) == x # "" IN SelectSeq(names, Given)

\* C23: for a non-empty application name and a recognized base-directory
\* kind the resolved path is the base directory, the project group if set,
\* the application name, the subdirectories in order, and the file name if
\* set, and it ends with a separator exactly when no file name is given;
\* the rendered path of a file entry ends with the entry's name, that of a
\* directory entry with its name followed by a separator; with an empty
\* application name or an unrecognized kind the resolver returns the empty
\* string.
C23_ResolvedPath ==
    xOut.done
        => /\ xIn.op = "Location"
                => LET c == xIn.cfg
                   IN  IF /\ c.programName # ""
                          /\ c.baseDir \in {"config", "data", "cache", "state", "runtime", "temp"}
                       THEN /\ xOut.segs = Named(<<c.baseDir, c.projectGroup, c.programName>>
                                                    \o c.subDir \o <<c.fileName>>)
                            /\ xOut.slash <=> (c.fileName = "")
                       ELSE xOut.segs = <<>> /\ ~xOut.slash
           /\ (xIn.op = "BuildPath" /\ xIn.path.AppName # "" /\ xIn.path.Name # "")
                => LET e == xIn.path
                   IN  /\ e.PathType \in {FileType, DirectoryType}
                            => /\ xOut.segs # <<>>
                               /\ xOut.segs[Len(xOut.segs)] = e.Name
                       /\ e.PathType = FileType => ~xOut.slash
                       /\ e.PathType = DirectoryType => xOut.slash
           /\ (xIn.op = "BuildPath" /\ xIn.path.AppName = "") => xOut.segs = <<>>

\* A resolution with a project group and two subdirectories and no file
\* name: a directory path.
C23_Witness ==
    /\ xOut.done /\ xIn.op = "Location"
    /\ xIn.cfg.projectGroup = "g" /\ xIn.cfg.subDir = <<"s", "t">> /\ xIn.cfg.fileName = ""
    /\ xOut.segs = <<"data", "g", "app", "s", "t">> /\ xOut.slash

(***************************************************************************)
(* The predefined templates and NewCustomPath.                             *)
(***************************************************************************)
\* The package-level template variables.
Templates ==
    [JSONStorageTemplate |->
        [ZeroPath EXCEPT !.BaseDir = Data, !.PathType = FileType, !.Category = CategoryData,
                         !.DefaultPerm = 384, !.Format = "json", !.RetentionDays = 0,
                         !.Subcategory = "storage"],
     LogFileTemplate |->
        [ZeroPath EXCEPT !.BaseDir = Runtime, !.PathType = FileType,
                         !.Category = CategoryRuntime, !.DefaultPerm = 420,
                         !.Format = "text", !.MaxSize = 10 * 1024 * 1024,
                         !.RetentionDays = 30, !.Subcategory = "logs"],
     ConfigFileTemplate |->
        [ZeroPath EXCEPT !.BaseDir = Config, !.PathType = FileType,
                         !.Category = CategoryConfig, !.DefaultPerm = 420,
                         !.IsMandatory = TRUE, !.IsVersioned = TRUE, !.Format = "toml",
                         !.Subcategory = ""],
     ProcessStateTemplate |->
        [ZeroPath EXCEPT !.BaseDir = Data, !.PathType = DirectoryType,
                         !.Category = CategoryData, !.DefaultPerm = 493,
                         !.Subcategory = "processes", !.HasSubdirs = TRUE,
                         !.MaxChildren = 1000, !.RetentionDays = 90],
     ProjectsTemplate |->
        [ZeroPath EXCEPT !.BaseDir = Data, !.PathType = DirectoryType,
                         !.Category = CategoryData, !.DefaultPerm = 493,
                         !.Subcategory = "projects", !.HasSubdirs = TRUE,
                         !.MaxChildren = 100, !.RetentionDays = 0],
     StatsTemplate |->
        [ZeroPath EXCEPT !.BaseDir = Runtime, !.PathType = FileType,
                         !.Category = CategoryRuntime, !.DefaultPerm = 420,
                         !.Subcategory = "stats", !.Format = "json",
                         !.MaxSize = 5 * 1024 * 1024, !.RetentionDays = 365],
     BackupStorageTemplate |->
        [ZeroPath EXCEPT !.BaseDir = Data, !.PathType = DirectoryType,
                         !.Category = CategoryData, !.DefaultPerm = 448,
                         !.Subcategory = "backups", !.HasSubdirs = TRUE,
                         !.MaxChildren = 50, !.RetentionDays = 30, !.CleanupAge = 90],
     UploadCacheTemplate |->
        [ZeroPath EXCEPT !.BaseDir = Cache, !.PathType = DirectoryType,
                         !.Category = CategoryCache, !.DefaultPerm = 488,
                         !.Subcategory = "uploads", !.HasSubdirs = TRUE,
                         !.MaxChildren = 1000, !.RetentionDays = 7, !.CleanupAge = 30],
     ExportTemplate |->
        [ZeroPath EXCEPT !.BaseDir = Data, !.PathType = DirectoryType,
                         !.Category = CategoryData, !.DefaultPerm = 493,
                         !.Subcategory = "exports", !.HasSubdirs = TRUE,
                         !.MaxChildren = 100, !.RetentionDays = 14, !.CleanupAge = 60]]

\* The options of pathspec that set a field of a Path.
WithAppName(appName) == [set |-> "AppName", to |-> appName]
WithName(name) == [set |-> "Name", to |-> name]

\* for _, option := range options { option(&result) }
RECURSIVE Customized(_, _, _)
Customized(result, options, i) ==
    IF i > Len(options) THEN result
    ELSE Customized([result EXCEPT ![options[i].set] = options[i].to], options, i + 1)

\* NewCustomPath(template, options...): [template, result], the caller's
\* template after the call (it is passed by value, the options work on the
\* copy) and the Path returned.
NewCustomPath(template, options) ==
    [template |-> template, result |-> Customized(template, options, 1)]

TemplateCalls ==
    [template : DOMAIN Templates, name : {"n", "m", "k"}, appName : {"app", "b"}]
NoTemplateCall == [template |-> "", name |-> "", appName |-> ""]

\* The package of the templates is not loaded.
IdleTP == tIn = NoTemplateCall /\ templates = <<>>

InitTP ==
    /\ tIn \in TemplateCalls /\ templates = Templates
    /\ pe = ZeroPath /\ peErr = "idle"

\* p := NewCustomPath(XTemplate, WithName(n), WithAppName(a))
TP_NewCustomPath ==
    /\ peErr = "idle"
    /\ LET c == NewCustomPath(templates[tIn.template],
                              <<WithName(tIn.name), WithAppName(tIn.appName)>>)
       IN  /\ pe' = c.result
           /\ templates' = [templates EXCEPT ![tIn.template] = c.template]
    /\ peErr' = "unchecked"
    /\ tIn' = tIn
    /\ UNCHANGED nonTpVars

NextTP == TP_NewCustomPath \/ PV_Validate

\* C27: each predefined template yields a valid entry once
\* NewCustomPath(template, WithName(n), WithAppName(a)) is applied with a
\* non-empty n and a, and NewCustomPath leaves the template unchanged.
C27_TemplatesYieldValidEntries ==
    /\ templates = Templates
    /\ peErr \notin {"idle", "unchecked"}
        => /\ pe = [Templates[tIn.template] EXCEPT !.Name = tIn.name,
                                                   !.AppName = tIn.appName]
           /\ peErr = "nil"

(***************************************************************************)
(* Construction of a configuration manager followed as a call: before it   *)
(* the variables hold what New is given (version, format option, default   *)
(* configuration, forced path) and the files of the disk.                  *)
(***************************************************************************)
InitNM ==
    \E ver \in Versions, f \in Formats \cup {"ini"}, d \in Cfgs :
        \E force \in {<<>>} \cup PathsOf(f), fs0 \in [PathsOf(f) -> FileStates(f)] :
            /\ ver = "C" => f = TOML
            /\ mVer = ver /\ mFormat = f /\ mConfig = d /\ mPath = force
            /\ fsFiles = fs0 /\ fsTmps = {}
            /\ mLast = [NoManagerCall EXCEPT !.op = "none"]

\* m, err := New(appName, defaultConfig, options...)
CM_New ==
    \E skip \in BOOLEAN, fail \in CmFailPoints :
        /\ mLast.op = "none"
        /\ LET n == NewManager(mVer, mConfig, mPath, skip, mFormat, fsFiles, fsTmps, fail)
               chosen == IF mPath = <<>> THEN XdgConfigPath(n.format) ELSE mPath
           IN  /\ mConfig' = n.config /\ mPath' = n.path /\ mFormat' = n.format
               /\ fsFiles' = n.fs /\ fsTmps' = n.tmps
               /\ mLast' = [NoManagerCall EXCEPT
                                !.op = IF skip THEN "New(SkipSaveOnCreation)" ELSE "New",
                                !.err = IF n.err THEN "new" ELSE "none",
                                !.preConfig = mConfig, !.prePath = chosen, !.fail = fail,
                                !.fsSame = (n.fs = fsFiles /\ n.tmps = fsTmps),
                                !.preFile = At(fsFiles, chosen)]
        /\ mVer' = mVer
        /\ UNCHANGED nonCmVars

NextNM == CM_New

\* C30: constructing a configuration manager never overwrites an existing
\* configuration file: New writes the default configuration only when no
\* file exists at the chosen path and save-on-creation is not disabled; when
\* a file exists, or SkipSaveOnCreation(true) is given, New leaves the file
\* system unchanged.
C30_NewNeverOverwrites ==
    (mLast.op \in {"New", "New(SkipSaveOnCreation)"})
        => /\ (~Missing(mLast.preFile) \/ mLast.op = "New(SkipSaveOnCreation)")
                => mLast.fsSame
           /\ ~mLast.fsSame => (Missing(mLast.preFile) /\ mLast.op = "New")
           /\ ~Missing(mLast.preFile) => At(fsFiles, mLast.prePath) = mLast.preFile

\* A New without options on a path that holds another document than the
\* default configuration: the manager is made and the document is still there.
C30_Witness ==
    /\ mLast.op = "New" /\ mLast.err = "none" /\ mLast.fail = "none"
    /\ mLast.preFile.kind = "file" /\ mLast.preFile.val # mConfig
    /\ At(fsFiles, mPath) = mLast.preFile

(***************************************************************************)
(* Construction of a record store (part_007) followed as a call: New or    *)
(* Load with a list of options on a path that holds nothing or a document. *)
(***************************************************************************)
InitSN ==
    /\ rVer = "2.0.0" /\ rMethod = Compact /\ rPrefix = "" /\ rIndent = ""
    /\ rData = EmptyMap /\ rFile \in InitFiles /\ rTmp = FALSE
    /\ rSaved = [ok |-> FALSE, map |-> EmptyMap]
    /\ rLast = [NoStoreCall EXCEPT !.op = "none"]

\* What a constructor returned, and the bytes Marshal gives for the store.
Opened(op, opts, n) ==
    /\ rMethod' = n.db.marshalingMethod
    /\ rPrefix' = n.db.prefix
    /\ rIndent' = n.db.indent
    /\ rData' = n.db.data
    /\ rLast' = [NoStoreCall EXCEPT
                    !.op = op, !.err = n.err, !.opts = opts, !.map = n.db.data,
                    !.first = Marshal(n.db.data, n.db.marshalingMethod, n.db.prefix,
                                      n.db.indent).bytes]
    /\ UNCHANGED <<rVer, rFile, rTmp, rSaved>>
    /\ UNCHANGED nonRtVars

\* db, err := New(path, opts...)
SN_New ==
    \E opts \in OptionLists :
        /\ rLast.op = "none"
        /\ Opened("New", opts, New(rFile, opts))

\* db, err := Load(path, opts...)
SN_Load ==
    \E opts \in OptionLists :
        /\ rLast.op = "none"
        /\ Opened("Load", opts, Load(rFile, opts))

NextSN == SN_New \/ SN_Load

\* The marshaling options of a list of options.
MarshalingOptions(opts) ==
    LET IsMarshaling(x) == x.k \in {"WithCompactMarshaling", "WithIndentMarshaling"}
    IN  SelectSeq(opts, IsMarshaling)

\* C29: a record store that New or Load constructed with no marshaling
\* option saves its map in the hybrid rendering; it saves compact or
\* indented output only when WithCompactMarshaling or WithIndentMarshaling
\* was passed.
C29_HybridByDefault ==
    (rLast.op \in {"New", "Load"} /\ ~rLast.err /\ rVer = "2.0.0")
        => /\ MarshalingOptions(rLast.opts) = <<>>
                => /\ rMethod = Hybrid
                   /\ rLast.first = Marshal(rData, Hybrid, "", "").bytes
           /\ rMethod = Compact
                => \E k \in DOMAIN rLast.opts : rLast.opts[k].k = "WithCompactMarshaling"
           /\ rMethod = Indent
                => \E k \in DOMAIN rLast.opts : rLast.opts[k].k = "WithIndentMarshaling"

(***************************************************************************)
(* Specifications.                                                         *)
(***************************************************************************)
\* No record store is observed.
IdleDB ==
    /\ data = EmptyMap /\ autoSave = FALSE /\ method = Compact /\ prefix = "" /\ indent = ""
    /\ file = Absent /\ tmpFiles = 0 /\ last = NoCall /\ ref = EmptyMap /\ startedEmpty = TRUE

\* No atomic write is observed.
IdleAW ==
    /\ wKind = "writeToFile" /\ wPc = "idle"
    /\ wTarget = Absent /\ wTmp = Absent /\ wProbe = FALSE
    /\ wOld = Absent /\ wNew = <<>> /\ wErr = "ok" /\ wFailedAt = "none" /\ wCreated = FALSE

InitSpecDB == InitDB /\ IdleAW /\ IdleCM /\ IdleDC /\ IdleCC /\ IdleRT /\ IdlePV /\ IdleLY /\ IdleXL /\ IdleTP

SpecDB == InitSpecDB /\ [][NextDB]_vars

InitSpecAW == InitAW /\ IdleDB /\ IdleCM /\ IdleDC /\ IdleCC /\ IdleRT /\ IdlePV /\ IdleLY /\ IdleXL /\ IdleTP

SpecAW == InitSpecAW /\ [][NextAW]_vars

InitSpecCM == InitCM /\ IdleDB /\ IdleAW /\ IdleDC /\ IdleCC /\ IdleRT /\ IdlePV /\ IdleLY /\ IdleXL /\ IdleTP

SpecCM == InitSpecCM /\ [][NextCM]_vars

InitSpecDBc == InitDBc /\ IdleAW /\ IdleCM /\ IdleDC /\ IdleCC /\ IdleRT /\ IdlePV /\ IdleLY /\ IdleXL /\ IdleTP

SpecDBc == InitSpecDBc /\ [][NextDBc]_vars

InitSpecCMc == InitCM /\ IdleDB /\ IdleAW /\ IdleDC /\ IdleCC /\ IdleRT /\ IdlePV /\ IdleLY /\ IdleXL /\ IdleTP

SpecCMc == InitSpecCMc /\ [][NextCMc]_vars

InitSpecRT == InitRT /\ IdleDB /\ IdleAW /\ IdleCM /\ IdleDC /\ IdleCC /\ IdlePV /\ IdleLY /\ IdleXL /\ IdleTP

SpecRT == InitSpecRT /\ [][NextRT]_vars

InitSpecPV == InitPV /\ IdleDB /\ IdleAW /\ IdleCM /\ IdleDC /\ IdleCC /\ IdleRT /\ IdleLY /\ IdleXL /\ IdleTP

SpecPV == InitSpecPV /\ [][NextPV]_vars

InitSpecLY == InitLY /\ IdleDB /\ IdleAW /\ IdleCM /\ IdleDC /\ IdleCC /\ IdleRT /\ IdlePV /\ IdleXL /\ IdleTP

SpecLY == InitSpecLY /\ [][NextLY]_vars

InitSpecGA == InitGA /\ IdleDB /\ IdleAW /\ IdleCM /\ IdleDC /\ IdleCC /\ IdleRT /\ IdlePV /\ IdleXL /\ IdleTP

SpecGA == InitSpecGA /\ [][NextGA]_vars

InitSpecAS == InitAS /\ IdleDB /\ IdleAW /\ IdleCM /\ IdleDC /\ IdleCC /\ IdleRT /\ IdlePV /\ IdleXL /\ IdleTP

SpecAS == InitSpecAS /\ [][NextAS]_vars

InitSpecGO == InitGO /\ IdleDB /\ IdleAW /\ IdleCM /\ IdleDC /\ IdleCC /\ IdleRT /\ IdlePV /\ IdleXL /\ IdleTP

SpecGO == InitSpecGO /\ [][NextGO]_vars

InitSpecXL == InitXL /\ IdleDB /\ IdleAW /\ IdleCM /\ IdleDC /\ IdleCC /\ IdleRT /\ IdlePV /\ IdleLY /\ IdleTP

SpecXL == InitSpecXL /\ [][NextXL]_vars

InitSpecTP == InitTP /\ IdleDB /\ IdleAW /\ IdleCM /\ IdleDC /\ IdleCC /\ IdleRT /\ IdleLY /\ IdleXL

SpecTP == InitSpecTP /\ [][NextTP]_vars

InitSpecUC == InitCM /\ IdleDB /\ IdleAW /\ IdleDC /\ IdleCC /\ IdleRT /\ IdlePV /\ IdleLY /\ IdleXL /\ IdleTP

SpecUC == InitSpecUC /\ [][NextUC]_vars

InitSpecNM == InitNM /\ IdleDB /\ IdleAW /\ IdleDC /\ IdleCC /\ IdleRT /\ IdlePV /\ IdleLY /\ IdleXL /\ IdleTP

SpecNM == InitSpecNM /\ [][NextNM]_vars

InitSpecSN == InitSN /\ IdleDB /\ IdleAW /\ IdleCM /\ IdleDC /\ IdleCC /\ IdlePV /\ IdleLY /\ IdleXL /\ IdleTP

SpecSN == InitSpecSN /\ [][NextSN]_vars

====
